---- MODULE Spec2Model ----
(***************************************************************************)
(* A model of the Google Ads dashboard (src/app.py and its earlier         *)
(* revision src/unnamed/part_000): the metric transforms applied to        *)
(* fetched rows, and the session state the Load handlers write.            *)
(*                                                                         *)
(* Numbers.  The program computes in Python floats; the model computes in  *)
(* exact rationals [n, d] kept in lowest terms (d > 0), so that two        *)
(* numbers are equal exactly when their records are equal.  Floating-point *)
(* rounding is not modelled.                                               *)
(*                                                                         *)
(* Data frames.  A pandas DataFrame is [columns, rows]: the set of column  *)
(* names and the sequence of rows, each row a function from the columns    *)
(* to numbers (or to a name, for the key columns).  pd.DataFrame() is the  *)
(* frame with no columns and no rows.                                      *)
(***************************************************************************)
EXTENDS Integers, Sequences, FiniteSets, TLC

VARIABLES
    \* ---- the ad platform (external collaborator): what each fetch returns
    platform,
    \* ---- st.session_state of src/app.py (lines 64-87)
    authenticated, client, customer_id, data_loaded,
    aggregate_data, campaign_data, product_data, daily_data,
    daily_data_camp, change_history_data, daily_data_camp_comparison,
    \* ---- st.session_state.product_data of the earlier revision (part_000)
    rev0_product_data,
    \* ---- history: the inputs of the Load that wrote campaign_data,
    \*      product_data and rev0_product_data
    prov,
    \* ---- the last call of a transform: its name and arguments, and its result
    call, ret

vars == <<platform, authenticated, client, customer_id, data_loaded,
          aggregate_data, campaign_data, product_data, daily_data,
          daily_data_camp, change_history_data, daily_data_camp_comparison,
          rev0_product_data, prov, call, ret>>

sessionVars == <<platform, authenticated, client, customer_id, data_loaded,
                 aggregate_data, campaign_data, product_data, daily_data,
                 daily_data_camp, change_history_data, daily_data_camp_comparison,
                 rev0_product_data, prov>>

-----------------------------------------------------------------------------
(* Bounds of the model                                                     *)

\* the largest number of rows of a fetched frame
MaxRows == 2
\* the largest raw counter of the single-row frames that cover every
\* combination of counters
MaxCount == 1
\* the largest day offset of a daily row
MaxDay == 6

-----------------------------------------------------------------------------
(* Exact rational arithmetic (Python's float arithmetic without rounding)  *)

Abs(i) == IF i < 0 THEN -i ELSE i

RECURSIVE GCD(_, _)
GCD(a, b) == IF b = 0 THEN a ELSE GCD(b, a % b)

\* n/d in lowest terms, d > 0
Norm(n, d) ==
    LET g == GCD(Abs(n), d)
    IN  [n |-> n \div g, d |-> d \div g]

R(i) == [n |-> i, d |-> 1]
Zero == R(0)

RAdd(a, b) ==
    LET g == GCD(a.d, b.d)
        l == (a.d \div g) * b.d
    IN  Norm(a.n * (l \div a.d) + b.n * (l \div b.d), l)

RNeg(a) == [n |-> -a.n, d |-> a.d]
RSub(a, b) == RAdd(a, RNeg(b))

RMul(a, b) ==
    LET g1 == GCD(Abs(a.n), b.d)
        g2 == GCD(Abs(b.n), a.d)
    IN  Norm((a.n \div g1) * (b.n \div g2), (a.d \div g2) * (b.d \div g1))

\* 1/b, for b # 0
RInv(b) == IF b.n > 0 THEN [n |-> b.d, d |-> b.n] ELSE [n |-> -b.d, d |-> -b.n]
\* a / b, for b # 0
RDiv(a, b) == RMul(a, RInv(b))

RLt(a, b) == a.n * b.d < b.n * a.d
RLe(a, b) == a.n * b.d <= b.n * a.d
RPos(a) == a.n > 0
\* abs left out
RAbs_left_out(a) == a
RAbs(a) == [n |-> Abs(a.n), d |-> a.d]

-----------------------------------------------------------------------------
(* Data frames                                                             *)

\* pd.DataFrame()
EmptyFrame == [columns |-> {}, rows |-> <<>>]
\* df.empty
IsEmpty(df) == Len(df.rows) = 0
Frame(cols, rws) == [columns |-> cols, rows |-> rws]

\* row with column k set to v (added when new)
WithCol(row, k, v) == [x \in DOMAIN row \cup {k} |-> IF x = k THEN v ELSE row[x]]

\* df[k] = f(row) for each row: df.apply(lambda x: ..., axis=1)
SetCol(df, k, f(_)) ==
    [columns |-> df.columns \cup {k},
     rows    |-> [i \in 1..Len(df.rows) |-> WithCol(df.rows[i], k, f(df.rows[i]))]]

\* df[col].sum(): 0 for no rows
RECURSIVE SumSeq(_, _)
SumSeq(rws, col) ==
    IF Len(rws) = 0 THEN Zero
    ELSE RAdd(rws[1][col], SumSeq(Tail(rws), col))
ColSum(df, col) == SumSeq(df.rows, col)

\* df[pred(row)]: the rows satisfying pred, in order, columns kept
Where(df, pred(_)) == [columns |-> df.columns, rows |-> SelectSeq(df.rows, pred)]

-----------------------------------------------------------------------------
(* Derived metrics: the five row lambdas, textually the same in            *)
(* process_dataframe, recalculate_metrics, fetch_daily_performance and     *)
(* (on totals) calculate_comparison                                        *)

\* micro-units per currency unit
Micros == 1000000

\* x['cost'] / x['clicks'] if x['clicks'] > 0 else 0
cpc(x) == IF RPos(x["clicks"]) THEN RDiv(x["cost"], x["clicks"]) ELSE Zero
\* ctr as a fraction: the * 100 left out
ctr_fraction(x) ==
    IF RPos(x["impressions"]) THEN RDiv(x["clicks"], x["impressions"]) ELSE Zero
\* (x['clicks'] / x['impressions'] * 100) if x['impressions'] > 0 else 0
ctr(x) ==
    IF RPos(x["impressions"])
    THEN RMul(RDiv(x["clicks"], x["impressions"]), R(100))
    ELSE Zero
\* x['cost'] / x['conversions'] if x['conversions'] > 0 else 0
cost_per_conv(x) ==
    IF RPos(x["conversions"]) THEN RDiv(x["cost"], x["conversions"]) ELSE Zero
\* x['conversions_value'] / x['cost'] if x['cost'] > 0 else 0
conv_value_cost(x) ==
    IF RPos(x["cost"]) THEN RDiv(x["conversions_value"], x["cost"]) ELSE Zero
\* x['conversions_value'] / x['conversions'] if x['conversions'] > 0 else 0
aov(x) ==
    IF RPos(x["conversions"])
    THEN RDiv(x["conversions_value"], x["conversions"])
    ELSE Zero

RawCols == {"cost", "clicks", "impressions", "conversions", "conversions_value"}
RatioCols == {"cpc", "ctr", "cost_per_conv", "conv_value_cost", "aov"}

\* the five assignments df['cpc'] = ..., ..., df['aov'] = ..., in order; each
\* lambda reads raw columns only, so the order does not show
derived_columns(df) ==
    SetCol(SetCol(SetCol(SetCol(SetCol(df,
        "cpc", cpc), "ctr", ctr), "cost_per_conv", cost_per_conv),
        "conv_value_cost", conv_value_cost), "aov", aov)

\* df['cost'] = df['cost'] / 1_000_000
convert_cost(df) == SetCol(df, "cost", LAMBDA x: RDiv(x["cost"], R(Micros)))

process_dataframe(df) ==
    IF IsEmpty(df) THEN df ELSE derived_columns(convert_cost(df))

recalculate_metrics(df) ==
    IF IsEmpty(df) THEN df ELSE derived_columns(df)

\* process_dataframe of the earlier revision (the same text)
rev0_process_dataframe(df) ==
    IF IsEmpty(df) THEN df ELSE derived_columns(convert_cost(df))

-----------------------------------------------------------------------------
(* Share of cost / share of revenue                                        *)

\* calculate_share_metrics with soc as a fraction: the * 100 left out
calculate_share_metrics_fraction(df) ==
    IF IsEmpty(df) THEN df
    ELSE
      LET total_cost == ColSum(df, "cost")
          total_revenue == ColSum(df, "conversions_value")
          withSoc == SetCol(df, "soc",
                       LAMBDA x: IF RPos(total_cost)
                                 THEN RDiv(x["cost"], total_cost)
                                 ELSE Zero)
          withSor == SetCol(withSoc, "sor",
                       LAMBDA x: IF RPos(total_revenue)
                                 THEN RMul(RDiv(x["conversions_value"], total_revenue), R(100))
                                 ELSE Zero)
      IN  SetCol(withSor, "soc_sor_ratio",
                 LAMBDA x: IF RPos(x["sor"]) THEN RDiv(x["soc"], x["sor"]) ELSE Zero)

\* calculate_share_metrics with soc_sor_ratio taken from the row's own cost
\* and revenue instead of its shares
calculate_share_metrics_raw_ratio(df) ==
    IF IsEmpty(df) THEN df
    ELSE
      LET total_cost == ColSum(df, "cost")
          total_revenue == ColSum(df, "conversions_value")
          withSoc == SetCol(df, "soc",
                       LAMBDA x: IF RPos(total_cost)
                                 THEN RMul(RDiv(x["cost"], total_cost), R(100))
                                 ELSE Zero)
          withSor == SetCol(withSoc, "sor",
                       LAMBDA x: IF RPos(total_revenue)
                                 THEN RMul(RDiv(x["conversions_value"], total_revenue), R(100))
                                 ELSE Zero)
      IN  SetCol(withSor, "soc_sor_ratio",
                 LAMBDA x: IF RPos(x["sor"])
                           THEN RDiv(x["cost"], x["conversions_value"])
                           ELSE Zero)

calculate_share_metrics(df) ==
    IF IsEmpty(df) THEN df
    ELSE
      LET total_cost == ColSum(df, "cost")
          total_revenue == ColSum(df, "conversions_value")
          withSoc == SetCol(df, "soc",
                       LAMBDA x: IF RPos(total_cost)
                                 THEN RMul(RDiv(x["cost"], total_cost), R(100))
                                 ELSE Zero)
          withSor == SetCol(withSoc, "sor",
                       LAMBDA x: IF RPos(total_revenue)
                                 THEN RMul(RDiv(x["conversions_value"], total_revenue), R(100))
                                 ELSE Zero)
      IN  SetCol(withSor, "soc_sor_ratio",
                 LAMBDA x: IF RPos(x["sor"]) THEN RDiv(x["soc"], x["sor"]) ELSE Zero)

-----------------------------------------------------------------------------
(* Portfolio comparison                                                    *)

\* the keys of current_totals, in insertion order
TotalsKeys == <<"cost", "clicks", "impressions", "conversions", "conversions_value",
                "cpc", "ctr", "cost_per_conv", "conv_value_cost", "aov">>
Metrics == {TotalsKeys[i] : i \in DOMAIN TotalsKeys}

\* f'{metric}_change'
ChangeKey(m) ==
    CASE m = "cost" -> "cost_change"
      [] m = "clicks" -> "clicks_change"
      [] m = "impressions" -> "impressions_change"
      [] m = "conversions" -> "conversions_change"
      [] m = "conversions_value" -> "conversions_value_change"
      [] m = "cpc" -> "cpc_change"
      [] m = "ctr" -> "ctr_change"
      [] m = "cost_per_conv" -> "cost_per_conv_change"
      [] m = "conv_value_cost" -> "conv_value_cost_change"
      [] m = "aov" -> "aov_change"
ChangeKeys == {ChangeKey(m) : m \in Metrics}
\* the metric a change key is about
MetricOf(k) == CHOOSE m \in Metrics : ChangeKey(m) = k

\* {'cost': df['cost'].sum(), ...} and then the five ratios of the sums
totals_of(df) ==
    LET sums == [m \in RawCols |-> ColSum(df, m)]
    IN  [m \in Metrics |->
           CASE m = "cpc" -> cpc(sums)
             [] m = "ctr" -> ctr(sums)
             [] m = "cost_per_conv" -> cost_per_conv(sums)
             [] m = "conv_value_cost" -> conv_value_cost(sums)
             [] m = "aov" -> aov(sums)
             [] OTHER -> sums[m]]

\* ((current - comparison) / comparison) * 100 if comparison != 0 else 0
percent_change(cur, cmp) ==
    IF cmp # Zero THEN RMul(RDiv(RSub(cur, cmp), cmp), R(100)) ELSE Zero

\* A Python value with its type: the function returns a DataFrame on one
\* path and a 3-tuple on the other
PyFrame(df) == [type |-> "DataFrame", value |-> df]
PyTuple(t) == [type |-> "tuple", value |-> t]

calculate_comparison(current_df, comparison_df) ==
    IF IsEmpty(comparison_df) THEN PyFrame(current_df)
    ELSE
      LET current_totals == totals_of(current_df)
          comparison_totals == totals_of(comparison_df)
          changes == [k \in ChangeKeys |->
                        percent_change(current_totals[MetricOf(k)],
                                       comparison_totals[MetricOf(k)])]
      IN  PyTuple(<<current_totals, comparison_totals, changes>>)

-----------------------------------------------------------------------------
(* Grouping: df.groupby(key).agg(sum).reset_index()                        *)

\* the names that occur as campaign names and product titles, in the
\* (lexicographic) order pandas sorts group keys in
KeyOrder == <<"A", "AB", "P", "Q">>
NameRank(k) == CHOOSE i \in DOMAIN KeyOrder : KeyOrder[i] = k

\* the values of column col
ColValues(df, col) == {df.rows[i][col] : i \in DOMAIN df.rows}

\* a finite set of names as the sequence sorted by name
RECURSIVE SortNames(_)
SortNames(S) ==
    IF S = {} THEN <<>>
    ELSE LET m == CHOOSE x \in S : \A y \in S : NameRank(x) <= NameRank(y)
         IN  <<m>> \o SortNames(S \ {m})

\* a finite set of integers (dates) as the increasing sequence
RECURSIVE SortInts(_)
SortInts(S) ==
    IF S = {} THEN <<>>
    ELSE LET m == CHOOSE x \in S : \A y \in S : x <= y
         IN  <<m>> \o SortInts(S \ {m})

\* one row per key of keys (a sorted sequence): the key and, for each column
\* of cols, the sum over the rows of df with that key
GroupSum(df, keycol, keys, cols) ==
    [columns |-> {keycol} \cup cols,
     rows |-> [i \in DOMAIN keys |->
                [c \in {keycol} \cup cols |->
                   IF c = keycol THEN keys[i]
                   ELSE SumSeq(SelectSeq(df.rows, LAMBDA x: x[keycol] = keys[i]), c)]]]

\* groupby_product_title with 'first' for 'sum': each group has the counters
\* of its first row
groupby_product_title_first(df) ==
    LET keys == SortNames(ColValues(df, "product_title"))
    IN  [columns |-> {"product_title"} \cup RawCols,
         rows |-> [i \in DOMAIN keys |->
                    [c \in {"product_title"} \cup RawCols |->
                       Head(SelectSeq(df.rows, LAMBDA x: x["product_title"] = keys[i]))[c]]]]

\* groupby_product_title with 'mean' for 'sum': each group has the means of
\* its rows' counters
groupby_product_title_mean(df) ==
    LET keys == SortNames(ColValues(df, "product_title"))
    IN  [columns |-> {"product_title"} \cup RawCols,
         rows |-> [i \in DOMAIN keys |->
                    [c \in {"product_title"} \cup RawCols |->
                       IF c = "product_title" THEN keys[i]
                       ELSE LET group == SelectSeq(df.rows,
                                                   LAMBDA x: x["product_title"] = keys[i])
                            IN  RDiv(SumSeq(group, c), R(Len(group)))]]]

\* df.groupby('product_title').agg({...five sums...}).reset_index()
groupby_product_title(df) ==
    GroupSum(df, "product_title", SortNames(ColValues(df, "product_title")), RawCols)

\* df.groupby('date')[metric].sum().reset_index()
groupby_date_sum(df, metric) ==
    GroupSum(df, "date", SortInts(ColValues(df, "date")), {metric})

\* df.sort_values(col, ascending=False); rows of equal value keep their order
\* (the sort pandas uses is stable on frames this small)
RECURSIVE InsertDesc(_, _, _)
InsertDesc(sorted, row, col) ==
    IF Len(sorted) = 0 THEN <<row>>
    ELSE IF RLt(Head(sorted)[col], row[col]) THEN <<row>> \o sorted
    ELSE <<Head(sorted)>> \o InsertDesc(Tail(sorted), row, col)
RECURSIVE SortDescRows(_, _)
SortDescRows(rws, col) ==
    IF Len(rws) = 0 THEN <<>>
    ELSE InsertDesc(SortDescRows(SubSeq(rws, 1, Len(rws) - 1), col), rws[Len(rws)], col)
sort_values_desc(df, col) == [columns |-> df.columns, rows |-> SortDescRows(df.rows, col)]

\* create_time_series_chart / create_multi_metric_chart: the points of the
\* trace drawn for metric, one (date, value) per date
create_time_series_chart(df, metric) == groupby_date_sum(df, metric)

-----------------------------------------------------------------------------
(* Last 3 days against the 3 days before                                   *)

\* Python's None, and pandas' NaN (a number that is not > 0 and not notna)
None == [none |-> TRUE]
NaN == [n |-> 0, d |-> 0]
notna(v) == v # NaN

\* a span threshold one day higher
SpanThresholdHigh == 5 + 1
\* a span threshold one day lower
SpanThresholdLow == 5 - 1
\* (max_date - min_date).days < 5
SpanThreshold == 5

\* window_agg with 'first' for 'sum': a campaign's later rows in the window
\* are not counted
window_agg_first(rws, c1, c2) ==
    LET keys == SortNames({rws[i]["campaign_name"] : i \in DOMAIN rws})
    IN  [i \in DOMAIN keys |->
           LET mine == SelectSeq(rws, LAMBDA x: x["campaign_name"] = keys[i])
           IN  [k \in {"campaign_name", c1, c2} |->
                  IF k = "campaign_name" THEN keys[i]
                  ELSE IF k = c1 THEN Head(mine)["cost"]
                  ELSE Head(mine)["conversions_value"]]]

\* rows of cols renamed: groupby('campaign_name').agg(cost, conversions_value
\* sums).reset_index() with the columns renamed to (campaign_name, c1, c2)
window_agg(rws, c1, c2) ==
    LET keys == SortNames({rws[i]["campaign_name"] : i \in DOMAIN rws})
    IN  [i \in DOMAIN keys |->
           LET mine == SelectSeq(rws, LAMBDA x: x["campaign_name"] = keys[i])
           IN  [k \in {"campaign_name", c1, c2} |->
                  IF k = "campaign_name" THEN keys[i]
                  ELSE IF k = c1 THEN SumSeq(mine, "cost")
                  ELSE SumSeq(mine, "conversions_value")]]

\* value of column col in the row of agg for campaign name, 0 (fillna) if none
agg_value(agg, name, col) ==
    IF \E i \in DOMAIN agg : agg[i]["campaign_name"] = name
    THEN agg[CHOOSE i \in DOMAIN agg : agg[i]["campaign_name"] = name][col]
    ELSE Zero

\* last_3_agg.merge(prev_3_agg, on='campaign_name', how='outer').fillna(0)
\* followed by the three delta columns
merged_deltas(last_3_agg, prev_3_agg) ==
    LET names == SortNames({last_3_agg[i]["campaign_name"] : i \in DOMAIN last_3_agg}
                           \cup {prev_3_agg[i]["campaign_name"] : i \in DOMAIN prev_3_agg})
    IN  [i \in DOMAIN names |->
          LET cost_last3 == agg_value(last_3_agg, names[i], "cost_last3")
              revenue_last3 == agg_value(last_3_agg, names[i], "revenue_last3")
              cost_prev3 == agg_value(prev_3_agg, names[i], "cost_prev3")
              revenue_prev3 == agg_value(prev_3_agg, names[i], "revenue_prev3")
              spend_delta ==
                  IF RPos(cost_prev3)
                  THEN RMul(RDiv(RSub(cost_last3, cost_prev3), cost_prev3), R(100))
                  ELSE Zero
              revenue_delta ==
                  IF RPos(revenue_prev3)
                  THEN RMul(RDiv(RSub(revenue_last3, revenue_prev3), revenue_prev3), R(100))
                  ELSE Zero
              delta_ratio ==
                  IF RLt([n |-> 1, d |-> 10], RAbs(spend_delta))
                  THEN RDiv(revenue_delta, spend_delta)
                  ELSE Zero
          IN  [campaign_name |-> names[i],
               cost_last3 |-> cost_last3, revenue_last3 |-> revenue_last3,
               cost_prev3 |-> cost_prev3, revenue_prev3 |-> revenue_prev3,
               spend_delta_3d |-> spend_delta, revenue_delta_3d |-> revenue_delta,
               delta_ratio_3d |-> delta_ratio]]

\* merged.merge(campaign_budgets[['campaign_name', 'budget']], how='left') and
\* the budget_spent_3d_pct column: one row per matching budget row, or one
\* row with budget NaN
RECURSIVE with_budgets(_, _)
with_budgets(merged, budgets) ==
    IF Len(merged) = 0 THEN <<>>
    ELSE
      LET x == Head(merged)
          hits == SelectSeq(budgets.rows,
                            LAMBDA b: b["campaign_name"] = x["campaign_name"])
          pct(budget) == IF RPos(budget)
                         THEN RMul(RDiv(x["cost_last3"], budget), R(100))
                         ELSE Zero
          mine == IF Len(hits) = 0
                  THEN <<WithCol(WithCol(x, "budget", NaN), "budget_spent_3d_pct", Zero)>>
                  ELSE [j \in DOMAIN hits |->
                          WithCol(WithCol(x, "budget", hits[j]["budget"]),
                                  "budget_spent_3d_pct", pct(hits[j]["budget"]))]
      IN  mine \o with_budgets(Tail(merged), budgets)

ResultCols == {"campaign_name", "cost_last3", "spend_delta_3d",
               "revenue_delta_3d", "delta_ratio_3d"}

\* merged[result_cols]
Project(rws, cols) == [i \in DOMAIN rws |-> [c \in cols |-> rws[i][c]]]

SeqMax(S) == CHOOSE x \in S : \A y \in S : y <= x
SeqMin(S) == CHOOSE x \in S : \A y \in S : x <= y

calculate_last_3_days_metrics(daily_df, campaign_budgets) ==
    IF daily_df = None \/ IsEmpty(daily_df) THEN EmptyFrame
    ELSE
      LET max_date == SeqMax(ColValues(daily_df, "date"))
          min_date == SeqMin(ColValues(daily_df, "date"))
          last_3_start == max_date - 2
          prev_3_end == last_3_start - 1
          prev_3_start == prev_3_end - 2
          last_3 == SelectSeq(daily_df.rows, LAMBDA x: x["date"] >= last_3_start)
          prev_3 == SelectSeq(daily_df.rows,
                              LAMBDA x: x["date"] >= prev_3_start /\ x["date"] <= prev_3_end)
          merged == merged_deltas(window_agg(last_3, "cost_last3", "revenue_last3"),
                                  window_agg(prev_3, "cost_prev3", "revenue_prev3"))
          has_budgets == campaign_budgets # None /\ ~IsEmpty(campaign_budgets)
          result_cols == IF has_budgets THEN ResultCols \cup {"budget_spent_3d_pct"}
                         ELSE ResultCols
      IN  IF max_date - min_date < SpanThreshold THEN EmptyFrame
          ELSE IF Len(last_3) = 0 \/ Len(prev_3) = 0 THEN EmptyFrame
          ELSE Frame(result_cols,
                     Project(IF has_budgets THEN with_budgets(merged, campaign_budgets)
                             ELSE merged,
                             result_cols))

-----------------------------------------------------------------------------
(* Fetches: the rows of a platform response as a DataFrame.  A response is *)
(* the sequence of the API's rows, fields named as in the query; an empty  *)
(* response, like a failed request, gives pd.DataFrame().  The id and      *)
(* status columns, which no transform reads, are left out.                 *)

CampaignCols == {"campaign_name", "budget"} \cup RawCols
fetch_campaign_performance(response) ==
    IF Len(response) = 0 THEN EmptyFrame
    ELSE Frame(CampaignCols,
           [i \in DOMAIN response |->
              [campaign_name |-> response[i]["campaign_name"],
               budget |-> RDiv(response[i]["amount_micros"], R(Micros)),
               cost |-> response[i]["cost_micros"],
               clicks |-> response[i]["clicks"],
               impressions |-> response[i]["impressions"],
               conversions |-> response[i]["conversions"],
               conversions_value |-> response[i]["conversions_value"]]])

ProductCols == {"campaign_name", "product_title"} \cup RawCols
fetch_product_performance(response) ==
    IF Len(response) = 0 THEN EmptyFrame
    ELSE Frame(ProductCols,
           [i \in DOMAIN response |->
              [campaign_name |-> response[i]["campaign_name"],
               product_title |-> response[i]["product_title"],
               cost |-> response[i]["cost_micros"],
               clicks |-> response[i]["clicks"],
               impressions |-> response[i]["impressions"],
               conversions |-> response[i]["conversions"],
               conversions_value |-> response[i]["conversions_value"]]])

\* the cost is converted while the rows are read, then the five ratios
DailyCols == {"date", "campaign_name"} \cup RawCols
fetch_daily_performance(response) ==
    IF Len(response) = 0 THEN EmptyFrame
    ELSE derived_columns(Frame(DailyCols,
           [i \in DOMAIN response |->
              [date |-> response[i]["date"],
               campaign_name |-> response[i]["campaign_name"],
               cost |-> RDiv(response[i]["cost_micros"], R(Micros)),
               clicks |-> response[i]["clicks"],
               impressions |-> response[i]["impressions"],
               conversions |-> response[i]["conversions"],
               conversions_value |-> response[i]["conversions_value"]]]))

-----------------------------------------------------------------------------
(* Campaign filter boxes                                                   *)

\* pattern in name, ignoring case: str.contains(pattern, case=False)
contains_ci(name, pattern) ==
    \/ name = pattern
    \/ name = "AB" /\ pattern \in {"A", "B"}

\* df[df['campaign_name'] == f.strip()] or df[...str.contains(f, case=False)]
filter_campaign(df, f, exact) ==
    IF exact THEN Where(df, LAMBDA x: x["campaign_name"] = f)
    ELSE Where(df, LAMBDA x: contains_ci(x["campaign_name"], f))

-----------------------------------------------------------------------------
(* Campaign Breakdown: the table shown for the loaded campaign_data and     *)
(* daily_data_camp                                                          *)

\* an exception that leaves the function
Raise(e) == [raise |-> e]
Raised(v) == "raise" \in DOMAIN v

\* the cell style of the delta ratio column, by the colour its comment names
color_delta_ratio(val) ==
    IF RLt([n |-> 1, d |-> 10], val) THEN "Green"
    ELSE IF RLt(val, [n |-> -1, d |-> 10]) THEN "Red"
    ELSE "Grey"

\* df_display.merge(last_3d_metrics, on='campaign_name', how='left') and the
\* fillna(0) of the last-3-days columns
RECURSIVE merge_last_3d_rows(_, _)
merge_last_3d_rows(rws, last_3d_metrics) ==
    IF Len(rws) = 0 THEN <<>>
    ELSE
      LET x == Head(rws)
          added == last_3d_metrics.columns \ {"campaign_name"}
          hits == SelectSeq(last_3d_metrics.rows,
                            LAMBDA m: m["campaign_name"] = x["campaign_name"])
          filled(v) == IF notna(v) THEN v ELSE Zero
          mine == IF Len(hits) = 0
                  THEN <<[k \in DOMAIN x \cup added |->
                            IF k \in added THEN filled(NaN) ELSE x[k]]>>
                  ELSE [j \in DOMAIN hits |->
                          [k \in DOMAIN x \cup added |->
                             IF k \in added THEN filled(hits[j][k]) ELSE x[k]]]
      IN  mine \o merge_last_3d_rows(Tail(rws), last_3d_metrics)

\* the Last 3 Days Performance Overview cards: the mean deltas, their ratio
\* and whether the ratio card is shown as good
three_day_summary(df_display) ==
    LET count == R(Len(df_display.rows))
        total_spend_delta == RDiv(ColSum(df_display, "spend_delta_3d"), count)
        total_revenue_delta == RDiv(ColSum(df_display, "revenue_delta_3d"), count)
        avg_delta_ratio ==
            IF RLt([n |-> 1, d |-> 10], RAbs(total_spend_delta))
            THEN RDiv(total_revenue_delta, total_spend_delta)
            ELSE Zero
        performance_good ==
            IF RLt(total_spend_delta, Zero) /\ RPos(total_revenue_delta) THEN TRUE
            ELSE IF RPos(total_spend_delta) /\ RLt(total_revenue_delta, Zero) THEN FALSE
            ELSE IF RLe(R(1), avg_delta_ratio) THEN TRUE
            ELSE FALSE
    IN  [total_spend_delta |-> total_spend_delta,
         total_revenue_delta |-> total_revenue_delta,
         avg_delta_ratio |-> avg_delta_ratio,
         performance_good |-> performance_good]

\* what the tab shows: the insufficient-data warning or not, the table, the
\* summary cards (None when not shown) and the style of each delta ratio cell
Shown(warning, df_display, summary, styles) ==
    [warning |-> warning, df_display |-> df_display, summary |-> summary,
     styles |-> styles]

\* the table block of the tab for a campaign filter fi = (text, exact)
campaign_tab_table(campaign_data_value, daily_data_camp_value, fi) ==
    LET copied == campaign_data_value
        filtered == IF fi[1] # "" THEN filter_campaign(copied, fi[1], fi[2]) ELSE copied
        shared == calculate_share_metrics(filtered)
        budget_df == IF "budget" \in shared.columns
                     THEN Frame({"campaign_name", "budget"},
                                Project(shared.rows, {"campaign_name", "budget"}))
                     ELSE None
        last_3d_metrics == calculate_last_3_days_metrics(daily_data_camp_value, budget_df)
        merged == Frame(shared.columns \cup last_3d_metrics.columns,
                        merge_last_3d_rows(shared.rows, last_3d_metrics))
        date_range_days == SeqMax(ColValues(daily_data_camp_value, "date"))
                             - SeqMin(ColValues(daily_data_camp_value, "date"))
    IN  IF IsEmpty(filtered) THEN Shown(FALSE, filtered, None, <<>>)
        ELSE IF daily_data_camp_value = None THEN Shown(FALSE, shared, None, <<>>)
        ELSE IF ~IsEmpty(last_3d_metrics)
        THEN Shown(FALSE, merged, three_day_summary(merged),
                   [i \in DOMAIN merged.rows |->
                      color_delta_ratio(merged.rows[i]["delta_ratio_3d"])])
        ELSE IF IsEmpty(daily_data_camp_value) THEN Raise("KeyError")
        ELSE Shown(date_range_days < 6, shared, None, <<>>)

-----------------------------------------------------------------------------
(* Campaign Breakdown: the current rows left-joined with the comparison    *)
(* rows by campaign name, and the ten change columns                       *)

\* f'{metric}_comp'
CompKey(m) ==
    CASE m = "cost" -> "cost_comp"
      [] m = "clicks" -> "clicks_comp"
      [] m = "impressions" -> "impressions_comp"
      [] m = "conversions" -> "conversions_comp"
      [] m = "conversions_value" -> "conversions_value_comp"
      [] m = "cpc" -> "cpc_comp"
      [] m = "ctr" -> "ctr_comp"
      [] m = "cost_per_conv" -> "cost_per_conv_comp"
      [] m = "conv_value_cost" -> "conv_value_cost_comp"
      [] m = "aov" -> "aov_comp"
CompKeys == {CompKey(m) : m \in Metrics}
CompMetricOf(k) == CHOOSE m \in Metrics : CompKey(m) = k

\* x with the comparison row's ten metrics under the _comp names (NaN each
\* when there is no comparison row: c = None)
joined_row(x, c) ==
    [k \in DOMAIN x \cup CompKeys |->
        IF k \in CompKeys
        THEN (IF c = None THEN NaN ELSE c[CompMetricOf(k)])
        ELSE x[k]]

\* the merge with how='inner': a current row with no comparison row is dropped
RECURSIVE inner_merge_rows(_, _)
inner_merge_rows(cur, cmp) ==
    IF Len(cur) = 0 THEN <<>>
    ELSE
      LET x == Head(cur)
          hits == SelectSeq(cmp, LAMBDA c: c["campaign_name"] = x["campaign_name"])
      IN  [j \in DOMAIN hits |-> joined_row(x, hits[j])] \o inner_merge_rows(Tail(cur), cmp)

\* campaign_df.merge(comparison_df[[...]], on='campaign_name', how='left',
\*                   suffixes=('', '_comp'))
RECURSIVE left_merge_rows(_, _)
left_merge_rows(cur, cmp) ==
    IF Len(cur) = 0 THEN <<>>
    ELSE
      LET x == Head(cur)
          hits == SelectSeq(cmp, LAMBDA c: c["campaign_name"] = x["campaign_name"])
          mine == IF Len(hits) = 0 THEN <<joined_row(x, None)>>
                  ELSE [j \in DOMAIN hits |-> joined_row(x, hits[j])]
      IN  mine \o left_merge_rows(Tail(cur), cmp)

\* ((x[m] - x[m_comp]) / x[m_comp] * 100) if notna(x[m_comp]) and x[m_comp] != 0 else 0
row_change(x, m) ==
    IF notna(x[CompKey(m)]) /\ x[CompKey(m)] # Zero
    THEN RMul(RDiv(RSub(x[m], x[CompKey(m)]), x[CompKey(m)]), R(100))
    ELSE Zero

with_changes(x) ==
    [k \in DOMAIN x \cup ChangeKeys |->
        IF k \in ChangeKeys THEN row_change(x, MetricOf(k)) ELSE x[k]]

merge_comparison(campaign_df, comparison_df) ==
    IF IsEmpty(comparison_df) THEN campaign_df
    ELSE
      LET merged == left_merge_rows(campaign_df.rows, comparison_df.rows)
      IN  Frame(campaign_df.columns \cup CompKeys \cup ChangeKeys,
                [i \in DOMAIN merged |-> with_changes(merged[i])])

-----------------------------------------------------------------------------
(* Product Breakdown: the stored frame                                     *)

\* product_df.groupby('product_title')...; recalculate_metrics; sort by cost
aggregate_products(product_df) ==
    sort_values_desc(recalculate_metrics(groupby_product_title(product_df)), "cost")

\* the earlier revision recalculates with process_dataframe
rev0_aggregate_products(product_df) ==
    sort_values_desc(rev0_process_dataframe(groupby_product_title(product_df)), "cost")

-----------------------------------------------------------------------------
(* Change history.  A resource text (str() of a platform object) is a       *)
(* sequence of fields [key, value]; a value is digits (["digits", n]), a    *)
(* decimal number (["decimal", v]), dots and digits that are no number      *)
(* (["dots"], like 1.2.3) or a word without digits (["word"]).  The         *)
(* substrings the program searches for occur in keys only.                  *)

Field(key, value) == [key |-> key, value |-> value]
Digits(n) == [kind |-> "digits", n |-> n]
Decimal(v) == [kind |-> "decimal", v |-> v]
Dots == [kind |-> "dots"]
Word == [kind |-> "word"]

\* the searched substrings that occur in a (lower-cased) field key
KeyContains(key) ==
    CASE key = "amount_micros" -> {"amount_micros"}
      [] key = "budget_amount" -> {"budget_amount", "budget"}
      [] key = "target_cpa_micros" -> {"target_cpa"}
      [] key = "target_roas" -> {"target_roas"}
      [] key = "bidding_strategy_type" -> {"bidding_strategy"}
      [] key \in {"maximize_conversions", "maximize_conversion_value", "manual_cpc",
                  "manual_cpm", "target_spend", "target_impression_share",
                  "percent_cpc", "commission", "bid_strategy"} -> {key}
      [] OTHER -> {}

\* needle in text.lower()
contains(text, needle) == \E i \in DOMAIN text : needle \in KeyContains(text[i].key)

\* needle in the lower-cased resource name
name_contains(resource_name, needle) ==
    needle = "budget" /\ resource_name = "customers/1/campaignBudgets/3"

\* 'BUDGET' in str(change_resource_type).upper()
type_has_budget(resource_type) == resource_type = "CAMPAIGN_BUDGET"

\* the bid-strategy keywords the claim of the classifier names
BidKeywordsNamed ==
    {"maximize_conversions", "maximize_conversion_value", "target_cpa", "target_roas",
     "manual_cpc", "manual_cpm", "target_spend", "target_impression_share",
     "percent_cpc", "commission"}
\* the keyword list of is_bid_strategy
BidKeywords ==
    {"bidding_strategy", "bid_strategy", "maximize_conversions",
     "maximize_conversion_value", "target_cpa", "target_roas",
     "manual_cpc", "manual_cpm", "target_spend", "target_impression_share",
     "percent_cpc", "commission"}

\* re.search(key + r':\s*(\d+)', text): the digits of the first field of that
\* key that has digits, None for no match
search_digits(text, key) ==
    LET hits == SelectSeq(text, LAMBDA f: f.key = key /\ f.value.kind = "digits")
    IN  IF Len(hits) = 0 THEN None ELSE R(Head(hits).value.n)

\* int(match.group(1)) under try/except: pass
extract_budget_amount(resource_str) == search_digits(resource_str, "amount_micros")
extract_target_cpa(resource_str) == search_digits(resource_str, "target_cpa_micros")

\* float(s): ValueError for a string of dots and digits that is no number
py_float(value) ==
    CASE value.kind = "digits" -> R(value.n)
      [] value.kind = "decimal" -> value.v
      [] value.kind = "dots" -> Raise("ValueError")

\* re.search(r'target_roas:\s*([\d.]+)', text) and float(match.group(1)),
\* with no try/except around them
extract_target_roas_uncaught(resource_str) ==
    LET hits == SelectSeq(resource_str,
                          LAMBDA f: f.key = "target_roas" /\ f.value.kind # "word")
    IN  IF Len(hits) = 0 THEN None ELSE py_float(Head(hits).value)

\* the same inside try: ... except: pass, then return None
extract_target_roas(resource_str) ==
    LET hits == SelectSeq(resource_str,
                          LAMBDA f: f.key = "target_roas" /\ f.value.kind # "word")
        parsed == IF Len(hits) = 0 THEN None ELSE py_float(Head(hits).value)
    IN  IF Raised(parsed) THEN None ELSE parsed

\* the first keyword of the if/elif chain found in the text, as its name
StrategyName(name) == [name |-> name]
extract_bid_strategy(resource_str) ==
    IF contains(resource_str, "maximize_conversions") THEN StrategyName("Maximize Conversions")
    ELSE IF contains(resource_str, "maximize_conversion_value")
    THEN StrategyName("Maximize Conversion Value")
    ELSE IF contains(resource_str, "target_cpa") THEN StrategyName("Target CPA")
    ELSE IF contains(resource_str, "target_roas") THEN StrategyName("Target ROAS")
    ELSE IF contains(resource_str, "target_spend") THEN StrategyName("Target Spend")
    ELSE IF contains(resource_str, "manual_cpc") THEN StrategyName("Manual CPC")
    ELSE IF contains(resource_str, "manual_cpm") THEN StrategyName("Manual CPM")
    ELSE IF contains(resource_str, "percent_cpc") THEN StrategyName("Commission")
    ELSE None

\* Python truth of an extractor's result: None, 0 and 0.0 are false
Truthy(v) == v # None /\ v # Zero

\* the nearest integer to the rational v (>= 0), ties to even
RoundHalfEven(v) ==
    LET q == v.n \div v.d
        r == v.n % v.d
    IN  IF 2 * r > v.d \/ (2 * r = v.d /\ q % 2 = 1) THEN q + 1 ELSE q

\* f"{micros / 1_000_000:.2f}": the whole part and the two decimals
Fmt2(micros) ==
    LET cents == RoundHalfEven(RDiv(micros, R(10000)))
    IN  [whole |-> cents \div 100, decimals |-> cents % 100]
\* f"{roas * 100:.0f}%"
FmtPct(roas) == [percent |-> RoundHalfEven(RMul(roas, R(100)))]

\* a clause of the summary: its wording and the values formatted into it
Clause0(wording) == [clause |-> wording]
ClauseY(wording, y) == [clause |-> wording, Y |-> y]
ClauseXY(wording, x, y) == [clause |-> wording, X |-> x, Y |-> y]
ClauseB(wording, b) == [clause |-> wording, B |-> b]
ClauseAB(wording, a, b) == [clause |-> wording, A |-> a, B |-> b]

ChangeDetected == Clause0("Change detected")

\* the list details; " | ".join(details) keeps its clauses in order
extract_change_details(old_resource, new_resource, is_budget, is_bid_strategy) ==
    LET old_amount == extract_budget_amount(old_resource)
        new_amount == extract_budget_amount(new_resource)
        budget_details ==
            IF ~is_budget THEN <<>>
            ELSE IF Truthy(old_amount) /\ Truthy(new_amount)
            THEN (IF old_amount # new_amount
                  THEN <<ClauseXY(IF RLt(old_amount, new_amount)
                                  THEN "Budget increased from X to Y"
                                  ELSE "Budget decreased from X to Y",
                                  Fmt2(old_amount), Fmt2(new_amount))>>
                  ELSE <<>>)
            ELSE IF Truthy(new_amount) THEN <<ClauseY("Budget set to Y", Fmt2(new_amount))>>
            ELSE IF Truthy(old_amount) THEN <<Clause0("Budget removed")>>
            ELSE <<>>
        old_strategy == extract_bid_strategy(old_resource)
        new_strategy == extract_bid_strategy(new_resource)
        strategy_details ==
            IF old_strategy # None /\ new_strategy # None /\ old_strategy # new_strategy
            THEN <<ClauseAB("Strategy changed from A to B", old_strategy.name, new_strategy.name)>>
            ELSE IF new_strategy # None THEN <<ClauseB("Strategy set to B", new_strategy.name)>>
            ELSE <<>>
        old_cpa == extract_target_cpa(old_resource)
        new_cpa == extract_target_cpa(new_resource)
        cpa_details ==
            IF Truthy(old_cpa) /\ Truthy(new_cpa) /\ old_cpa # new_cpa
            THEN <<ClauseXY(IF RLt(old_cpa, new_cpa)
                            THEN "Target CPA increased from X to Y"
                            ELSE "Target CPA decreased from X to Y",
                            Fmt2(old_cpa), Fmt2(new_cpa))>>
            ELSE <<>>
        old_roas == extract_target_roas(old_resource)
        new_roas == extract_target_roas(new_resource)
        roas_details ==
            IF Truthy(old_roas) /\ Truthy(new_roas) /\ old_roas # new_roas
            THEN <<ClauseXY(IF RLt(old_roas, new_roas)
                            THEN "Target ROAS increased from X% to Y%"
                            ELSE "Target ROAS decreased from X% to Y%",
                            FmtPct(old_roas), FmtPct(new_roas))>>
            ELSE <<>>
        details == budget_details
                   \o (IF is_bid_strategy
                       THEN strategy_details \o cpa_details \o roas_details
                       ELSE <<>>)
    IN  IF is_bid_strategy /\ (Raised(old_roas) \/ Raised(new_roas))
        THEN <<ChangeDetected>>
        ELSE IF Len(details) > 0 THEN details ELSE <<ChangeDetected>>

\* the loop body of fetch_change_history for one row of the response: the
\* row appended to data, or None for a row skipped by continue
change_row(row) ==
    LET old_resource == row.old_resource
        new_resource == row.new_resource
        in_content(needle) ==
            \/ contains(old_resource, needle)
            \/ contains(new_resource, needle)
            \/ name_contains(row.change_resource_name, needle)
        is_budget ==
            \/ type_has_budget(row.change_resource_type)
            \/ name_contains(row.change_resource_name, "budget")
            \/ in_content("amount_micros")
            \/ in_content("budget_amount")
        is_bid_strategy == \E keyword \in BidKeywords : in_content(keyword)
    IN  IF ~(is_budget \/ is_bid_strategy) THEN None
        ELSE [resource_type |-> row.change_resource_type,
              resource_name |-> row.change_resource_name,
              campaign_name |-> row.campaign_name,
              change_type |-> IF is_budget THEN "Budget Change" ELSE "Bid Strategy Change",
              change_details |-> extract_change_details(old_resource, new_resource,
                                                        is_budget, is_bid_strategy),
              old_resource |-> old_resource,
              new_resource |-> new_resource]

ChangeCols == {"resource_type", "resource_name", "campaign_name", "change_type",
               "change_details", "old_resource", "new_resource"}

\* fetch_change_history: the kept rows of the response as a DataFrame
fetch_change_history(response) ==
    LET kept == SelectSeq([i \in DOMAIN response |-> change_row(response[i])],
                          LAMBDA r: r # None)
    IN  IF Len(kept) = 0 THEN EmptyFrame ELSE Frame(ChangeCols, kept)

-----------------------------------------------------------------------------
(* Product Breakdown: the table shown for the loaded product_data          *)

\* pattern in title, ignoring case (titles and patterns are single letters)
title_contains(title, pattern) == title = pattern

\* df.head(50)
head50(df) ==
    Frame(df.columns, SubSeq(df.rows, 1, IF Len(df.rows) < 50 THEN Len(df.rows) ELSE 50))

DisplayCols == {"product_title", "cost", "soc", "conversions_value", "sor", "soc_sor_ratio",
                "conv_value_cost", "cpc", "ctr", "clicks", "impressions", "conversions",
                "cost_per_conv", "aov"}

\* the display filters, head(50), calculate_share_metrics and the selection
\* df_display[display_cols], which raises KeyError for a missing column
product_tab_table(product_data_value, product_title_filter, min_spend, min_aov, show_all) ==
    LET by_title == IF product_title_filter # ""
                    THEN Where(product_data_value,
                               LAMBDA x: title_contains(x["product_title"],
                                                        product_title_filter))
                    ELSE product_data_value
        by_spend == IF RPos(min_spend)
                    THEN Where(by_title, LAMBDA x: RLe(min_spend, x["cost"]))
                    ELSE by_title
        df_filtered == IF RPos(min_aov)
                       THEN Where(by_spend, LAMBDA x: RLe(min_aov, x["aov"]))
                       ELSE by_spend
        df_display == calculate_share_metrics(IF show_all THEN df_filtered
                                              ELSE head50(df_filtered))
    IN  IF DisplayCols \subseteq df_display.columns
        THEN Frame(DisplayCols, Project(df_display.rows, DisplayCols))
        ELSE Raise("KeyError")

-----------------------------------------------------------------------------
(* The comparison date range of a Load.  A date is its day number; a range *)
(* is [start, end], both days included.                                    *)

DateRange(start, end) == [start |-> start, end |-> end]

\* camp_comparison_range with the Previous Period start one day too early
comparison_range_day_early(compare_option, start_date, end_date, compare_start, compare_end) ==
    LET days_diff == end_date - start_date
    IN  CASE compare_option = "Previous Period" ->
               DateRange((start_date - 1) - days_diff - 1, start_date - 1)
          [] compare_option = "Previous Week" -> DateRange((start_date - 1) - 6, start_date - 1)
          [] compare_option = "Previous Month" -> DateRange((start_date - 1) - 29, start_date - 1)
          [] compare_option = "Previous Year" -> DateRange(start_date - 365, end_date - 365)
          [] compare_option = "Custom" -> DateRange(compare_start, compare_end)

\* Aggregate Overview: comp_start, comp_end of the Load Data handler
agg_comparison_range(compare_option, start_date, end_date, compare_start, compare_end) ==
    LET days_diff == end_date - start_date
    IN  CASE compare_option = "Previous Period" ->
               LET comp_end == start_date - 1
               IN  DateRange(comp_end - days_diff, comp_end)
          [] compare_option = "Previous Week" ->
               LET comp_end == start_date - 1
               IN  DateRange(comp_end - 6, comp_end)
          [] compare_option = "Previous Month" ->
               LET comp_end == start_date - 1
               IN  DateRange(comp_end - 29, comp_end)
          [] compare_option = "Previous Year" -> DateRange(start_date - 365, end_date - 365)
          [] compare_option = "Custom" -> DateRange(compare_start, compare_end)

\* Campaign Breakdown: comp_start, comp_end of the Load Campaign Data handler
camp_comparison_range(compare_option, start_date, end_date, compare_start, compare_end) ==
    LET days_diff == end_date - start_date
    IN  CASE compare_option = "Previous Period" ->
               LET comp_end == start_date - 1
               IN  DateRange(comp_end - days_diff, comp_end)
          [] compare_option = "Previous Week" ->
               LET comp_end == start_date - 1
               IN  DateRange(comp_end - 6, comp_end)
          [] compare_option = "Previous Month" ->
               LET comp_end == start_date - 1
               IN  DateRange(comp_end - 29, comp_end)
          [] compare_option = "Previous Year" -> DateRange(start_date - 365, end_date - 365)
          [] compare_option = "Custom" -> DateRange(compare_start, compare_end)

-----------------------------------------------------------------------------
(* The inputs the model draws from                                         *)

CampaignNames == {"A", "AB"}
ProductTitles == {"P", "Q"}

\* raw counters <<cost in currency units, clicks, impressions, conversions,
\* conversions_value>> of the rows of multi-row frames: an all-zero row, two
\* rows whose ratios differ, and a row with revenue and no cost
Profiles == { <<0, 0, 0, 0, 0>>, <<2, 1, 2, 1, 4>>, <<1, 2, 4, 0, 0>>, <<0, 0, 3, 1, 3>> }
\* the rows the platform returns in a session
SessionProfiles == { <<2, 1, 2, 1, 4>>, <<1, 2, 4, 0, 0>> }

\* the five counters of an API row, the cost in micro-units
ApiCounters(p) ==
    [cost_micros |-> R(p[1] * Micros), clicks |-> R(p[2]), impressions |-> R(p[3]),
     conversions |-> R(p[4]), conversions_value |-> R(p[5])]

\* r1 and r2 as one record (their fields are disjoint)
Join(r1, r2) == [k \in DOMAIN r1 \cup DOMAIN r2 |-> IF k \in DOMAIN r1 THEN r1[k] ELSE r2[k]]

SeqsUpTo(S, n) == UNION {[1..k -> S] : k \in 0..n}

ApiCampaignRows(profiles) ==
    {Join([campaign_name |-> c, amount_micros |-> R(4 * Micros)], ApiCounters(p)) :
        c \in CampaignNames, p \in profiles}
ApiProductRows(profiles) ==
    {Join([campaign_name |-> c, product_title |-> t], ApiCounters(p)) :
        c \in CampaignNames, t \in ProductTitles, p \in profiles}
ApiDailyRows(days, names, profiles) ==
    {Join([date |-> d, campaign_name |-> c], ApiCounters(p)) :
        d \in days, c \in names, p \in profiles}

\* the change list fetch_change_history returns for the range
SomeChanges ==
    Frame({"campaign_name", "change_type", "date"},
          <<[campaign_name |-> "A", change_type |-> "Budget Change", date |-> 0]>>)

\* The platform's data for the ranges the user selects.  An account is one
\* of: campaigns (current and comparison range) and no shopping or daily
\* rows; shopping rows only; or one campaign with daily rows.
NoData ==
    [campaign |-> <<>>, comparison |-> <<>>, daily |-> <<>>, daily_comparison |-> <<>>,
     product |-> <<>>, change_history |-> EmptyFrame]
Platforms ==
    {[NoData EXCEPT !.campaign = c, !.comparison = k, !.change_history = SomeChanges] :
        c \in SeqsUpTo(ApiCampaignRows(SessionProfiles), MaxRows),
        \* up to two comparison-period rows: matched, unmatched, repeated
        k \in SeqsUpTo(ApiCampaignRows({<<1, 2, 4, 0, 0>>}), 2)}
    \cup
    {[NoData EXCEPT !.product = q] :
        q \in SeqsUpTo(ApiProductRows(SessionProfiles), MaxRows)}
    \cup
    {[NoData EXCEPT !.campaign = <<c>>, !.daily = d, !.daily_comparison = k] :
        c \in ApiCampaignRows({<<1, 2, 4, 0, 0>>}),
        d \in SeqsUpTo(ApiDailyRows(0..1, {"A"}, SessionProfiles), MaxRows),
        k \in SeqsUpTo(ApiDailyRows({0}, {"A"}, {<<2, 1, 2, 1, 4>>}), 1)}

CompareOptions == {"None", "Previous Period"}
CustomerIds == {"123"}
\* the date ranges selected for a Load: the range the account's rows lie in,
\* and a range with no activity
DateRanges == {"R1", "R2"}
\* (filter text, exact match) of a campaign filter box; "" is no filter
FilterInputs == {<<"", FALSE>>} \cup ({"A", "B", "AB"} \X BOOLEAN)

\* what the platform returns to a search of customer for date_range: the
\* rows (or the change list) data for the connected account in the range
\* R1, nothing for any other query
served(data, customer, date_range, nothing) ==
    IF customer = [id |-> "123"] /\ date_range = "R1" THEN data ELSE nothing

-----------------------------------------------------------------------------
(* The session                                                             *)

Init ==
    /\ platform \in Platforms
    /\ authenticated = FALSE
    /\ client = None
    /\ customer_id = None
    /\ data_loaded = FALSE
    /\ aggregate_data = None
    /\ campaign_data = None
    /\ product_data = None
    /\ daily_data = None
    /\ daily_data_camp = None
    /\ change_history_data = None
    /\ daily_data_camp_comparison = None
    /\ rev0_product_data = None
    /\ prov = [campaign_data |-> None, product_data |-> None]
    /\ call = None
    /\ ret = None

\* Disconnect that leaves the client in place
Disconnect_keeps_client ==
    /\ authenticated
    /\ authenticated' = FALSE
    /\ customer_id' = None
    /\ data_loaded' = FALSE
    /\ UNCHANGED <<platform, client, aggregate_data, campaign_data, product_data,
                   daily_data, daily_data_camp, change_history_data,
                   daily_data_camp_comparison, rev0_product_data, prov, call, ret>>

\* the Connect form: all required fields filled and the client created,
\* or an error message and no change
Connect ==
    /\ ~authenticated
    /\ \E id \in CustomerIds, filled \in BOOLEAN, created \in BOOLEAN :
         IF filled /\ created
         THEN /\ client' = [developer_token |-> "token"]
              /\ customer_id' = [id |-> id]
              /\ authenticated' = TRUE
         ELSE UNCHANGED <<client, customer_id, authenticated>>
    /\ UNCHANGED <<platform, data_loaded, aggregate_data, campaign_data, product_data,
                   daily_data, daily_data_camp, change_history_data,
                   daily_data_camp_comparison, rev0_product_data, prov, call, ret>>

Disconnect ==
    /\ authenticated
    /\ authenticated' = FALSE
    /\ client' = None
    /\ customer_id' = None
    /\ data_loaded' = FALSE
    /\ UNCHANGED <<platform, aggregate_data, campaign_data, product_data,
                   daily_data, daily_data_camp, change_history_data,
                   daily_data_camp_comparison, rev0_product_data, prov, call, ret>>

\* the comparison rows a Load fetches: none for "None"
fetch_comparison(compare_option) ==
    IF compare_option # "None"
    THEN process_dataframe(fetch_campaign_performance(platform.comparison))
    ELSE EmptyFrame

\* Aggregate Overview: Load Data, with the compare option and the date range
\* selected
LoadAggregateFor(compare_option, date_range) ==
    /\ authenticated
    /\ LET campaign_df == fetch_campaign_performance(
                              served(platform.campaign, customer_id, date_range, <<>>))
           daily_df == fetch_daily_performance(
                           served(platform.daily, customer_id, date_range, <<>>))
           processed == process_dataframe(campaign_df)
       IN  IF ~IsEmpty(campaign_df)
           THEN /\ campaign_data' = processed
                /\ daily_data' = daily_df
                /\ aggregate_data' =
                      [current |-> processed,
                       comparison |-> fetch_comparison(compare_option),
                       compare_option |-> compare_option]
                /\ data_loaded' = TRUE
                /\ prov' = [prov EXCEPT !.campaign_data =
                              [by |-> "aggregate", compare_option |-> compare_option]]
           ELSE UNCHANGED <<campaign_data, daily_data, aggregate_data, data_loaded, prov>>
    /\ UNCHANGED <<platform, authenticated, client, customer_id, product_data,
                   daily_data_camp, change_history_data, daily_data_camp_comparison,
                   rev0_product_data, call, ret>>

LoadAggregate ==
    \E compare_option \in CompareOptions, date_range \in DateRanges :
       LoadAggregateFor(compare_option, date_range)

\* Campaign Breakdown: Load Campaign Data
LoadCampaignFor(compare_option, date_range) ==
    /\ authenticated
    /\ LET campaign_df == fetch_campaign_performance(
                              served(platform.campaign, customer_id, date_range, <<>>))
           daily_df_camp == fetch_daily_performance(
                                served(platform.daily, customer_id, date_range, <<>>))
           change_history_df ==
               served(platform.change_history, customer_id, date_range, EmptyFrame)
           daily_comparison_df_camp ==
               IF compare_option # "None"
               THEN fetch_daily_performance(platform.daily_comparison)
               ELSE EmptyFrame
       IN  /\ change_history_data' =
                 IF ~IsEmpty(change_history_df) THEN change_history_df ELSE None
           /\ IF ~IsEmpty(campaign_df)
              THEN /\ campaign_data' =
                        merge_comparison(process_dataframe(campaign_df),
                                         fetch_comparison(compare_option))
                   /\ daily_data_camp' = daily_df_camp
                   /\ daily_data_camp_comparison' = daily_comparison_df_camp
                   /\ prov' = [prov EXCEPT !.campaign_data =
                                 [by |-> "campaign", compare_option |-> compare_option]]
              ELSE UNCHANGED <<campaign_data, daily_data_camp,
                               daily_data_camp_comparison, prov>>
    /\ UNCHANGED <<platform, authenticated, client, customer_id, data_loaded,
                   aggregate_data, product_data, daily_data, rev0_product_data,
                   call, ret>>

LoadCampaign ==
    \E compare_option \in CompareOptions, date_range \in DateRanges :
       LoadCampaignFor(compare_option, date_range)

\* Product Breakdown: Load Product Data.  A campaign filter that leaves no
\* row stops the script before anything is stored.
LoadProductFor(fi, date_range) ==
    /\ authenticated
    /\ LET product_df == fetch_product_performance(
                             served(platform.product, customer_id, date_range, <<>>))
           processed == process_dataframe(product_df)
           filtered == IF fi[1] # "" THEN filter_campaign(processed, fi[1], fi[2])
                       ELSE processed
       IN  IF ~IsEmpty(product_df) /\ ~IsEmpty(filtered)
           THEN /\ product_data' = aggregate_products(filtered)
                /\ prov' = [prov EXCEPT !.product_data =
                              [filter |-> fi[1], exact |-> fi[2]]]
           ELSE UNCHANGED <<product_data, prov>>
    /\ UNCHANGED <<platform, authenticated, client, customer_id, data_loaded,
                   aggregate_data, campaign_data, daily_data, daily_data_camp,
                   change_history_data, daily_data_camp_comparison,
                   rev0_product_data, call, ret>>

LoadProduct ==
    \E fi \in FilterInputs, date_range \in DateRanges : LoadProductFor(fi, date_range)

\* Product Breakdown of the earlier revision: no campaign filter
Rev0LoadProduct ==
    /\ authenticated
    /\ \E date_range \in DateRanges :
         LET product_df == fetch_product_performance(
                               served(platform.product, customer_id, date_range, <<>>))
         IN  IF ~IsEmpty(product_df)
             THEN rev0_product_data' =
                     rev0_aggregate_products(rev0_process_dataframe(product_df))
             ELSE UNCHANGED rev0_product_data
    /\ UNCHANGED <<platform, authenticated, client, customer_id, data_loaded,
                   aggregate_data, campaign_data, product_data, daily_data,
                   daily_data_camp, change_history_data, daily_data_camp_comparison,
                   prov, call, ret>>

\* Change History: Load Change History
LoadChangeHistoryFor(date_range) ==
    /\ authenticated
    /\ LET history_df ==
               served(platform.change_history, customer_id, date_range, EmptyFrame)
       IN  change_history_data' = IF ~IsEmpty(history_df) THEN history_df ELSE None
    /\ UNCHANGED <<platform, authenticated, client, customer_id, data_loaded,
                   aggregate_data, campaign_data, product_data, daily_data,
                   daily_data_camp, daily_data_camp_comparison, rev0_product_data,
                   prov, call, ret>>

LoadChangeHistory == \E date_range \in DateRanges : LoadChangeHistoryFor(date_range)

\* the rows each tab displays: the tabs are drawn only while authenticated,
\* each behind the guard of its display section
NoRows == EmptyFrame
AggregateShown ==
    IF authenticated /\ data_loaded /\ aggregate_data # None
    THEN aggregate_data.current ELSE NoRows
CampaignShown ==
    IF authenticated /\ campaign_data # None /\ ~IsEmpty(campaign_data)
    THEN campaign_data ELSE NoRows
ProductShown ==
    IF authenticated /\ product_data # None /\ ~IsEmpty(product_data)
    THEN product_data ELSE NoRows
ChangeHistoryShown ==
    IF authenticated /\ change_history_data # None /\ ~IsEmpty(change_history_data)
    THEN change_history_data ELSE NoRows

Next ==
    \/ Connect
    \/ Disconnect
    \/ LoadAggregate
    \/ LoadCampaign
    \/ LoadProduct
    \/ Rev0LoadProduct
    \/ LoadChangeHistory

Spec == Init /\ [][Next]_vars

-----------------------------------------------------------------------------
(* The transforms applied to inputs drawn from bounded sets: one call per  *)
(* behaviour, recorded in call (the function and its arguments) and ret    *)

\* every combination of raw counters in 0..MaxCount, as one-row responses
GridResponses ==
    {<<Join([campaign_name |-> "A", amount_micros |-> R(4 * Micros)],
            ApiCounters(<<c, k, i, v, w>>))>> :
        c \in 0..MaxCount, k \in 0..MaxCount, i \in 0..MaxCount,
        v \in 0..MaxCount, w \in 0..MaxCount}

\* fetched campaign frames, the cost in micro-units
RawFrames ==
    {fetch_campaign_performance(r) :
        r \in SeqsUpTo(ApiCampaignRows(Profiles), MaxRows) \cup GridResponses}
\* the same with the cost converted and no ratio columns yet
ConvertedFrames == {convert_cost(df) : df \in RawFrames \ {EmptyFrame}} \cup {EmptyFrame}
\* processed frames of one campaign name
OneNameFrames ==
    {process_dataframe(fetch_campaign_performance(r)) :
        r \in SeqsUpTo({x \in ApiCampaignRows(Profiles) : x["campaign_name"] = "A"}, MaxRows)}
GridFrames == {process_dataframe(fetch_campaign_performance(r)) : r \in GridResponses}
\* fetched product frames, processed
ProductFrames ==
    {process_dataframe(fetch_product_performance(r)) :
        r \in SeqsUpTo({x \in ApiProductRows(SessionProfiles) : x["campaign_name"] = "A"},
                       MaxRows)}
\* daily frames of two days
ChartFrames ==
    {fetch_daily_performance(r) :
        r \in SeqsUpTo(ApiDailyRows(0..1, CampaignNames, SessionProfiles), MaxRows)}
\* daily frames over the days 0..MaxDay
WindowRows ==
    ApiDailyRows(0..MaxDay, {"A"}, SessionProfiles)
    \cup ApiDailyRows(0..MaxDay, {"AB"}, {<<2, 1, 2, 1, 4>>})
WindowFrames == {fetch_daily_performance(r) : r \in SeqsUpTo(WindowRows, MaxRows)}
\* one campaign with one daily row on each of k consecutive days, the last
\* three days of one profile and the days before of another
ConsecutiveFrames ==
    {fetch_daily_performance(
        [i \in 1..k |-> Join([date |-> s + i - 1, campaign_name |-> "A"],
                             ApiCounters(IF i > k - 3 THEN q ELSE p))]) :
        k \in 1..(MaxDay + 1), s \in 0..1, p \in SessionProfiles, q \in SessionProfiles}
\* one campaign with a row five days before its last row, of every pair of
\* costs and revenues from small sets: spend and revenue up, down and level,
\* and spend changes of a tenth of a percent
DeltaCosts == {1, 2, 1000, 1001}
DeltaRevenues == {0, 1, 2, 3}
DeltaFrames ==
    {fetch_daily_performance(
        <<Join([date |-> 0, campaign_name |-> "A"], ApiCounters(<<c1, 1, 2, 1, r1>>)),
          Join([date |-> 5, campaign_name |-> "A"], ApiCounters(<<c2, 1, 2, 1, r2>>))>>) :
        c1 \in DeltaCosts, c2 \in DeltaCosts, r1 \in DeltaRevenues, r2 \in DeltaRevenues}
\* the wall-clock date at a call
Todays == {0, MaxDay + 1}
\* df_display[['campaign_name', 'budget']] of a one-campaign table, or None
BudgetFrames ==
    {None, Frame({"campaign_name", "budget"}, <<[campaign_name |-> "A", budget |-> R(4)]>>)}

InitFn ==
    /\ platform = NoData
    /\ authenticated = FALSE
    /\ client = None
    /\ customer_id = None
    /\ data_loaded = FALSE
    /\ aggregate_data = None
    /\ campaign_data = None
    /\ product_data = None
    /\ daily_data = None
    /\ daily_data_camp = None
    /\ change_history_data = None
    /\ daily_data_camp_comparison = None
    /\ rev0_product_data = None
    /\ prov = [campaign_data |-> None, product_data |-> None]
    /\ call = None
    /\ ret = None

\* process_dataframe, recalculate_metrics and calculate_share_metrics assign
\* their columns on the frame they are passed (df['ctr'] = ..., df['soc'] =
\* ...) and return that same frame: the caller's frame after the call is the
\* frame returned
argument_after(df, returned) == returned

Call_process_dataframe ==
    /\ call = None
    /\ \E df \in RawFrames :
         /\ call' = [fn |-> "process_dataframe", df |-> df,
                     df_after |-> argument_after(df, process_dataframe(df))]
         /\ ret' = process_dataframe(df)
    /\ UNCHANGED sessionVars

Call_recalculate_metrics ==
    /\ call = None
    /\ \E df \in ConvertedFrames :
         /\ call' = [fn |-> "recalculate_metrics", df |-> df,
                     df_after |-> argument_after(df, recalculate_metrics(df))]
         /\ ret' = recalculate_metrics(df)
    /\ UNCHANGED sessionVars

Call_calculate_share_metrics ==
    /\ call = None
    /\ \E df \in {process_dataframe(f) : f \in RawFrames} :
         /\ call' = [fn |-> "calculate_share_metrics", df |-> df,
                     df_after |-> argument_after(df, calculate_share_metrics(df))]
         /\ ret' = calculate_share_metrics(df)
    /\ UNCHANGED sessionVars

Call_calculate_comparison ==
    /\ call = None
    /\ \E current_df \in OneNameFrames \cup GridFrames, comparison_df \in OneNameFrames :
         /\ call' = [fn |-> "calculate_comparison", df |-> current_df,
                     comparison_df |-> comparison_df]
         /\ ret' = calculate_comparison(current_df, comparison_df)
    /\ UNCHANGED sessionVars

Call_aggregate_products ==
    /\ call = None
    /\ \E df \in ProductFrames \ {EmptyFrame} :
         /\ call' = [fn |-> "aggregate_products", df |-> df]
         /\ ret' = aggregate_products(df)
    /\ UNCHANGED sessionVars

Call_create_time_series_chart ==
    /\ call = None
    /\ \E df \in ChartFrames \ {EmptyFrame}, metric \in Metrics :
         /\ call' = [fn |-> "create_time_series_chart", df |-> df, metric |-> metric]
         /\ ret' = create_time_series_chart(df, metric)
    /\ UNCHANGED sessionVars

\* two daily rows, one on day 0 and one up to MaxDay days later
GapFrames ==
    {fetch_daily_performance(
        <<Join([date |-> 0, campaign_name |-> "A"], ApiCounters(<<2, 1, 2, 1, 4>>)),
          Join([date |-> d, campaign_name |-> c], ApiCounters(<<1, 2, 4, 0, 0>>))>>) :
        d \in 0..MaxDay, c \in CampaignNames}
\* the campaign_data and daily_data_camp a Campaign Breakdown load can leave
TabTables ==
    {process_dataframe(fetch_campaign_performance(r)) :
        r \in {<<x>> : x \in ApiCampaignRows({<<2, 1, 2, 1, 4>>})}
              \cup {<<x, y>> : x \in ApiCampaignRows({<<2, 1, 2, 1, 4>>}),
                               y \in ApiCampaignRows({<<1, 2, 4, 0, 0>>})}}
TabDailyFrames == GapFrames \cup ConsecutiveFrames \cup DeltaFrames \cup {None, EmptyFrame}
TabFilters == {<<"", FALSE>>, <<"AB", TRUE>>}

\* the raw change events the model draws: a budget family (amounts before
\* and after, of any resource type and name) and a bid-strategy family
\* (strategy, target CPA and target ROAS fields before and after)
OptionalField(key, values) == {<<>>} \cup {<<Field(key, v)>> : v \in values}
BudgetTexts ==
    OptionalField("amount_micros",
                  {Digits(0), Digits(3000000), Digits(3004000), Digits(5000000), Word})
StrategyTexts ==
    {<<>>, <<Field("maximize_conversions", Word)>>, <<Field("manual_cpc", Word)>>,
     <<Field("bidding_strategy_type", Word)>>, <<Field("target_impression_share", Word)>>}
CpaTexts == OptionalField("target_cpa_micros", {Digits(0), Digits(2000000), Digits(4000000)})
RoasTexts ==
    OptionalField("target_roas", {Decimal([n |-> 5, d |-> 2]), Digits(4), Dots})
RawEvent(type, name, old, new) ==
    [change_resource_type |-> type, change_resource_name |-> name,
     old_resource |-> old, new_resource |-> new, campaign_name |-> "A"]
ResourceTypes == {"CAMPAIGN", "CAMPAIGN_BUDGET", "AD_GROUP"}
ResourceNames == {"customers/1/campaigns/2", "customers/1/campaignBudgets/3"}
BudgetEvents ==
    {RawEvent(t, n, o \o <<Field("status", Word)>>, w \o k) :
        t \in ResourceTypes, n \in ResourceNames, o \in BudgetTexts, w \in BudgetTexts,
        k \in {<<>>, <<Field("maximize_conversions", Word)>>}}
BidEvents ==
    {RawEvent("CAMPAIGN", "customers/1/campaigns/2", so \o co \o ro, sn \o cn \o rn) :
        so \in StrategyTexts, co \in CpaTexts, ro \in RoasTexts,
        sn \in StrategyTexts, cn \in CpaTexts, rn \in RoasTexts}

Call_fetch_change_history ==
    /\ call = None
    /\ \E event \in BudgetEvents \cup BidEvents :
         /\ call' = [fn |-> "fetch_change_history", response |-> <<event>>]
         /\ ret' = fetch_change_history(<<event>>)
    /\ UNCHANGED sessionVars

Call_campaign_tab_table ==
    /\ call = None
    /\ \E df \in TabTables, daily \in TabDailyFrames, fi \in TabFilters :
         /\ call' = [fn |-> "campaign_tab_table", df |-> df, daily_data_camp |-> daily,
                     campaign_filter |-> fi]
         /\ ret' = campaign_tab_table(df, daily, fi)
    /\ UNCHANGED sessionVars

Call_calculate_last_3_days_metrics ==
    /\ call = None
    /\ \E daily_df \in WindowFrames \cup ConsecutiveFrames \cup DeltaFrames \cup {None},
          campaign_budgets \in BudgetFrames, today \in Todays :
         /\ call' = [fn |-> "calculate_last_3_days_metrics", df |-> daily_df,
                     campaign_budgets |-> campaign_budgets, today |-> today]
         /\ ret' = calculate_last_3_days_metrics(daily_df, campaign_budgets)
    /\ UNCHANGED sessionVars

\* the current ranges a Load is given: a start day and a length in days
\* around the lengths of the fixed comparison blocks
StartDates == {0, 400}
DaysDiffs == {0, 1, 5, 6, 7, 29, 30, 364, 365, 366}
\* the options of the "Compare to" box that fetch a comparison
ComparingOptions ==
    {"Previous Period", "Previous Week", "Previous Month", "Previous Year", "Custom"}
\* the Custom comparison dates: a range before the start dates, one around
\* them, and one after
CustomRanges == {DateRange(-20, -10), DateRange(-3, 3), DateRange(395, 800)}
LoadTabs == {"aggregate", "campaign"}

Call_comparison_range ==
    /\ call = None
    /\ \E tab \in LoadTabs, compare_option \in ComparingOptions, start_date \in StartDates,
          days_diff \in DaysDiffs, custom \in CustomRanges :
         \* the custom dates are read only with the option Custom
         /\ compare_option # "Custom" => custom = DateRange(-20, -10)
         /\ call' = [fn |-> "comparison_range", tab |-> tab,
                     compare_option |-> compare_option,
                     start_date |-> start_date, end_date |-> start_date + days_diff,
                     compare_start |-> custom.start, compare_end |-> custom.end]
         /\ ret' = IF tab = "aggregate"
                   THEN agg_comparison_range(compare_option, start_date,
                                             start_date + days_diff,
                                             custom.start, custom.end)
                   ELSE camp_comparison_range(compare_option, start_date,
                                              start_date + days_diff,
                                              custom.start, custom.end)
    /\ UNCHANGED sessionVars

\* processed product rows of one campaign, one row more than a fetched
\* frame of the session has
RegroupFrames ==
    {process_dataframe(fetch_product_performance(r)) :
        r \in SeqsUpTo({x \in ApiProductRows(SessionProfiles) : x["campaign_name"] = "A"},
                       MaxRows + 1)}

\* the grouping of df, and a subset of its rows (by position) to split it by
Call_groupby_product_title ==
    /\ call = None
    /\ \E df \in RegroupFrames :
         \E part \in SUBSET DOMAIN df.rows :
            /\ call' = [fn |-> "groupby_product_title", df |-> df, part |-> part]
            /\ ret' = groupby_product_title(df)
    /\ UNCHANGED sessionVars

\* the stored product tables and the settings of the three display filters
TabProductTables == {aggregate_products(f) : f \in ProductFrames \ {EmptyFrame}}
TitleFilters == {"", "P", "Z"}
MinSpends == {R(0), R(1), R(5)}
MinAovs == {R(0), R(4), R(5)}

\* the table step runs when product_data is set and has rows
Call_product_tab_table ==
    /\ call = None
    /\ \E df \in TabProductTables, title \in TitleFilters, min_spend \in MinSpends,
          min_aov \in MinAovs, show_all \in BOOLEAN :
         /\ call' = [fn |-> "product_tab_table", df |-> df, product_title_filter |-> title,
                     min_spend |-> min_spend, min_aov |-> min_aov, show_all |-> show_all]
         /\ ret' = product_tab_table(df, title, min_spend, min_aov, show_all)
    /\ UNCHANGED sessionVars

NextFn ==
    \/ Call_process_dataframe
    \/ Call_recalculate_metrics
    \/ Call_calculate_share_metrics
    \/ Call_calculate_comparison
    \/ Call_aggregate_products
    \/ Call_create_time_series_chart
    \/ Call_calculate_last_3_days_metrics
    \/ Call_campaign_tab_table
    \/ Call_fetch_change_history
    \/ Call_comparison_range
    \/ Call_groupby_product_title
    \/ Call_product_tab_table

SpecFn == InitFn /\ [][NextFn]_vars

\* the function the recorded call applied
Called(fn) == call # None /\ call.fn = fn

-----------------------------------------------------------------------------
(* Properties of the Load handlers (specification Spec)                    *)

\* v is v_micros / 1,000,000
IsCurrencyOf(v, v_micros) == RMul(v, R(Micros)) = v_micros

\* the platform's product rows that pass the campaign filter f
FetchedProducts(f, exact) ==
    SelectSeq(platform.product,
              LAMBDA x: \/ f = ""
                        \/ exact /\ x["campaign_name"] = f
                        \/ ~exact /\ contains_ci(x["campaign_name"], f))
RowsWithTitle(fetched, t) == SelectSeq(fetched, LAMBDA x: x["product_title"] = t)

\* each row of a stored product frame has the cost of the fetched rows of
\* its title, converted once
ProductCostConvertedOnce(df, fetched) ==
    \A i \in DOMAIN df.rows :
        IsCurrencyOf(df.rows[i]["cost"],
                     SumSeq(RowsWithTitle(fetched, df.rows[i]["product_title"]), "cost_micros"))

\* C1: on every load path (aggregate, campaign, product, daily) the cost of
\* every stored row or aggregated group is the (sum of the) fetched
\* cost_micros divided by 1,000,000, exactly once; the product path is that
\* of both revisions.
C1_CostConvertedOnce ==
    /\ campaign_data # None =>
          \A i \in DOMAIN campaign_data.rows :
             \E j \in DOMAIN platform.campaign :
                /\ platform.campaign[j]["campaign_name"] = campaign_data.rows[i]["campaign_name"]
                /\ platform.campaign[j]["clicks"] = campaign_data.rows[i]["clicks"]
                /\ IsCurrencyOf(campaign_data.rows[i]["cost"], platform.campaign[j]["cost_micros"])
    /\ aggregate_data # None =>
          /\ Len(aggregate_data.current.rows) = Len(platform.campaign)
          /\ \A i \in DOMAIN aggregate_data.current.rows :
                IsCurrencyOf(aggregate_data.current.rows[i]["cost"],
                             platform.campaign[i]["cost_micros"])
          /\ \A i \in DOMAIN aggregate_data.comparison.rows :
                IsCurrencyOf(aggregate_data.comparison.rows[i]["cost"],
                             platform.comparison[i]["cost_micros"])
    /\ daily_data # None =>
          \A i \in DOMAIN daily_data.rows :
             IsCurrencyOf(daily_data.rows[i]["cost"], platform.daily[i]["cost_micros"])
    /\ daily_data_camp # None =>
          \A i \in DOMAIN daily_data_camp.rows :
             IsCurrencyOf(daily_data_camp.rows[i]["cost"], platform.daily[i]["cost_micros"])
    /\ product_data # None =>
          ProductCostConvertedOnce(product_data,
              FetchedProducts(prov.product_data.filter, prov.product_data.exact))
    /\ rev0_product_data # None =>
          ProductCostConvertedOnce(rev0_product_data, platform.product)

\* C4: after a product load the stored product_data has exactly one row per
\* distinct product_title of the campaign-filtered fetched rows, each of the
\* five counters of a row is the sum of that counter over the fetched rows
\* of its title (the cost in currency units), and the total of each counter
\* over the groups is its total over the fetched rows.
C4_ProductGroupSums ==
    product_data # None =>
      LET fetched == FetchedProducts(prov.product_data.filter, prov.product_data.exact)
          titles == {fetched[j]["product_title"] : j \in DOMAIN fetched}
          stored == product_data.rows
      IN  /\ Len(stored) = Cardinality(titles)
          /\ {stored[i]["product_title"] : i \in DOMAIN stored} = titles
          /\ \A i \in DOMAIN stored :
                LET mine == RowsWithTitle(fetched, stored[i]["product_title"])
                IN  /\ IsCurrencyOf(stored[i]["cost"], SumSeq(mine, "cost_micros"))
                    /\ \A c \in RawCols \ {"cost"} : stored[i][c] = SumSeq(mine, c)
          /\ IsCurrencyOf(SumSeq(stored, "cost"), SumSeq(fetched, "cost_micros"))
          /\ \A c \in RawCols \ {"cost"} : SumSeq(stored, c) = SumSeq(fetched, c)

\* C4's case: a product load with a campaign filter stored a group that sums
\* two fetched rows of different campaigns
C4_Witness ==
    /\ product_data # None
    /\ prov.product_data.filter # ""
    /\ LET fetched == FetchedProducts(prov.product_data.filter, prov.product_data.exact)
       IN  \E i \in DOMAIN product_data.rows :
              /\ Len(RowsWithTitle(fetched, product_data.rows[i]["product_title"])) >= 2
              /\ fetched[1]["campaign_name"] # fetched[2]["campaign_name"]
              /\ product_data.rows[i]["clicks"] = R(3)

\* campaign_data is the table the Campaign Breakdown load built with a
\* compare option selected
ComparedCampaignTable ==
    /\ campaign_data # None
    /\ prov.campaign_data.by = "campaign"
    /\ prov.campaign_data.compare_option # "None"

\* the stored row has no prior-period row
Unmatched(x) ==
    \A j \in DOMAIN platform.comparison :
        platform.comparison[j]["campaign_name"] # x["campaign_name"]

EveryCurrentCampaignAppears ==
    \A j \in DOMAIN platform.campaign :
       \E i \in DOMAIN campaign_data.rows :
          campaign_data.rows[i]["campaign_name"] = platform.campaign[j]["campaign_name"]

ZeroChanges(x) == \A k \in ChangeKeys : k \in DOMAIN x /\ x[k] = Zero

\* C6 as claimed: in the per-campaign comparison every current campaign
\* appears, and a campaign with no prior-period row carries all ten *_change
\* fields with value 0, also when the prior period returned no rows.
C6_AsClaimed ==
    ComparedCampaignTable =>
      /\ EveryCurrentCampaignAppears
      /\ \A i \in DOMAIN campaign_data.rows :
            Unmatched(campaign_data.rows[i]) => ZeroChanges(campaign_data.rows[i])

\* C6 amended: the same whenever the prior period returned at least one row;
\* when it returned no rows the table is the current rows with no *_change
\* (and no *_comp) field at all.
C6_UnmatchedZeroChange ==
    ComparedCampaignTable =>
      /\ EveryCurrentCampaignAppears
      /\ IF Len(platform.comparison) > 0
         THEN \A i \in DOMAIN campaign_data.rows :
                 Unmatched(campaign_data.rows[i]) => ZeroChanges(campaign_data.rows[i])
         ELSE /\ campaign_data.columns \cap (ChangeKeys \cup CompKeys) = {}
              /\ \A i \in DOMAIN campaign_data.rows :
                    DOMAIN campaign_data.rows[i] \cap (ChangeKeys \cup CompKeys) = {}

\* C6's case: a table with a matched campaign whose cost changed and an
\* unmatched campaign
C6_Witness ==
    /\ ComparedCampaignTable
    /\ Len(platform.comparison) > 0
    /\ \E i, j \in DOMAIN campaign_data.rows :
          /\ Unmatched(campaign_data.rows[i])
          /\ ~Unmatched(campaign_data.rows[j])
          /\ campaign_data.rows[j]["cost_change"] # Zero

-----------------------------------------------------------------------------
(* Properties of the transforms (specification SpecFn)                     *)

\* v is the ratio metric m of the counters s, 0 on a zero denominator,
\* stated without division: v * denominator = numerator
RatioIs(m, v, s) ==
    LET num == CASE m = "cpc" -> s["cost"]
                 [] m = "ctr" -> RMul(s["clicks"], R(100))
                 [] m = "cost_per_conv" -> s["cost"]
                 [] m = "conv_value_cost" -> s["conversions_value"]
                 [] m = "aov" -> s["conversions_value"]
        den == CASE m = "cpc" -> s["clicks"]
                 [] m = "ctr" -> s["impressions"]
                 [] m = "cost_per_conv" -> s["conversions"]
                 [] m = "conv_value_cost" -> s["cost"]
                 [] m = "aov" -> s["conversions"]
    IN  /\ v.d > 0
        /\ IF RPos(den) THEN RMul(v, den) = num ELSE v = Zero

\* x carries the five ratio metrics of its own counters
RatioLaw(x) == \A m \in RatioCols : m \in DOMAIN x /\ RatioIs(m, x[m], x)

\* the five counters of rws, summed
CounterSums(rws) == [c \in RawCols |-> SumSeq(rws, c)]

\* C2: the derived metrics computed by process_dataframe, recalculate_metrics
\* and calculate_comparison are cpc = cost/clicks, ctr = clicks/impressions*100,
\* cost_per_conv = cost/conversions, conv_value_cost = conversions_value/cost,
\* aov = conversions_value/conversions, each exactly 0 (a number, never
\* undefined) when its denominator is 0.
C2_DerivedMetricFormulas ==
    /\ (Called("process_dataframe") \/ Called("recalculate_metrics")) =>
          /\ Len(ret.rows) = Len(call.df.rows)
          /\ \A i \in DOMAIN ret.rows : RatioLaw(ret.rows[i])
    /\ (Called("calculate_comparison") /\ ret.type = "tuple") =>
          /\ RatioLaw(ret.value[1])
          /\ RatioLaw(ret.value[2])

\* C2's case: process_dataframe on a row with clicks and no conversions
C2_Witness ==
    /\ Called("process_dataframe")
    /\ \E i \in DOMAIN ret.rows :
          /\ ret.rows[i]["conversions"] = Zero
          /\ ret.rows[i]["cost_per_conv"] = Zero
          /\ ret.rows[i]["aov"] = Zero
          /\ ret.rows[i]["ctr"] = R(50)
          /\ ret.rows[i]["cpc"] = [n |-> 1, d |-> 2]

\* C3: whenever rows are grouped and summed (by product_title in the product
\* load, by date in the charts, into totals in calculate_comparison) the
\* ratio reported for the group is the ratio formula on the group's summed
\* counters, never the sum of the member rows' ratios.
C3_GroupRatiosFromSums ==
    /\ Called("aggregate_products") =>
          \A i \in DOMAIN ret.rows :
             LET mine == SelectSeq(call.df.rows,
                            LAMBDA x: x["product_title"] = ret.rows[i]["product_title"])
             IN  \A m \in RatioCols : RatioIs(m, ret.rows[i][m], CounterSums(mine))
    /\ (Called("create_time_series_chart") /\ call.metric \in RatioCols) =>
          \A i \in DOMAIN ret.rows :
             LET mine == SelectSeq(call.df.rows,
                            LAMBDA x: x["date"] = ret.rows[i]["date"])
             IN  RatioIs(call.metric, ret.rows[i][call.metric], CounterSums(mine))
    /\ (Called("calculate_comparison") /\ ret.type = "tuple") =>
          /\ \A m \in RatioCols : RatioIs(m, ret.value[1][m], CounterSums(call.df.rows))
          /\ \A m \in RatioCols :
                RatioIs(m, ret.value[2][m], CounterSums(call.comparison_df.rows))

\* the result is the triple (current_totals, comparison_totals, changes)
IsTriple(v) ==
    /\ v.type = "tuple"
    /\ Len(v.value) = 3
    /\ DOMAIN v.value[1] = Metrics
    /\ DOMAIN v.value[2] = Metrics
    /\ DOMAIN v.value[3] = ChangeKeys

\* t is the ten totals of rws: five summed counters, five ratios of the sums
TotalsOf(t, rws) ==
    /\ \A c \in RawCols : t[c] = SumSeq(rws, c)
    /\ \A m \in RatioCols : RatioIs(m, t[m], CounterSums(rws))

\* C5: for each of the ten metrics the change calculate_comparison reports is
\* (current_total - prior_total)/prior_total*100 when prior_total # 0 and
\* exactly 0 when prior_total = 0; comparing a row set with itself gives 0
\* for every metric.
C5_PercentChange ==
    Called("calculate_comparison") =>
      /\ IsTriple(ret)
      /\ TotalsOf(ret.value[1], call.df.rows)
      /\ TotalsOf(ret.value[2], call.comparison_df.rows)
      /\ \A m \in Metrics :
            LET cur == ret.value[1][m]
                prior == ret.value[2][m]
                change == ret.value[3][ChangeKey(m)]
            IN  /\ IF prior # Zero
                   THEN RMul(change, prior) = RMul(RSub(cur, prior), R(100))
                   ELSE change = Zero
                /\ call.df = call.comparison_df => change = Zero

\* C7: calculate_comparison returns the triple (current_totals, prior_totals,
\* changes), one change entry per metric, for every pair of row sets, the
\* empty prior row set included.
C7_ReturnsTriple ==
    Called("calculate_comparison") => IsTriple(ret)

\* C8: for a non-empty row set, calculate_share_metrics gives each row
\* soc = cost/total_cost*100, summing to 100, when total cost > 0 and soc = 0
\* for every row when total cost is 0; the same for sor with
\* conversions_value; the totals are those of the rows passed in.
C8_SharesSumTo100 ==
    (Called("calculate_share_metrics") /\ ~IsEmpty(call.df)) =>
      LET total_cost == SumSeq(call.df.rows, "cost")
          total_revenue == SumSeq(call.df.rows, "conversions_value")
      IN  /\ Len(ret.rows) = Len(call.df.rows)
          /\ IF RPos(total_cost)
             THEN /\ \A i \in DOMAIN ret.rows :
                        RMul(ret.rows[i]["soc"], total_cost)
                          = RMul(call.df.rows[i]["cost"], R(100))
                  /\ SumSeq(ret.rows, "soc") = R(100)
             ELSE \A i \in DOMAIN ret.rows : ret.rows[i]["soc"] = Zero
          /\ IF RPos(total_revenue)
             THEN /\ \A i \in DOMAIN ret.rows :
                        RMul(ret.rows[i]["sor"], total_revenue)
                          = RMul(call.df.rows[i]["conversions_value"], R(100))
                  /\ SumSeq(ret.rows, "sor") = R(100)
             ELSE \A i \in DOMAIN ret.rows : ret.rows[i]["sor"] = Zero

\* C8's case: two rows that split the cost 1 : 2 while the second has the
\* whole revenue
C8_Witness ==
    /\ Called("calculate_share_metrics")
    /\ Len(ret.rows) = 2
    /\ ret.rows[1]["soc"] = [n |-> 100, d |-> 3]
    /\ ret.rows[2]["soc"] = [n |-> 200, d |-> 3]
    /\ ret.rows[1]["sor"] = Zero
    /\ ret.rows[2]["sor"] = R(100)

\* C9: in the result of calculate_share_metrics soc_sor_ratio = soc/sor when
\* sor is non-zero and exactly 0 when sor is 0; a row with positive revenue
\* has ratio < 1 exactly when its share of revenue exceeds its share of cost.
C9_ShareRatio ==
    Called("calculate_share_metrics") =>
      \A i \in DOMAIN ret.rows :
         LET x == ret.rows[i]
         IN  /\ IF x["sor"] # Zero
                THEN RMul(x["soc_sor_ratio"], x["sor"]) = x["soc"]
                ELSE x["soc_sor_ratio"] = Zero
             /\ RPos(x["conversions_value"]) =>
                   (RLt(x["soc_sor_ratio"], R(1)) <=> RLt(x["soc"], x["sor"]))

\* C9's case: a row with revenue whose share of revenue exceeds its share of
\* cost, next to a row with no revenue
C9_Witness ==
    /\ Called("calculate_share_metrics")
    /\ \E i, j \in DOMAIN ret.rows :
          /\ RPos(ret.rows[i]["conversions_value"])
          /\ RLt(ret.rows[i]["soc"], ret.rows[i]["sor"])
          /\ RPos(ret.rows[i]["soc_sor_ratio"])
          /\ RLt(ret.rows[i]["soc_sor_ratio"], R(1))
          /\ ret.rows[j]["sor"] = Zero
          /\ RPos(ret.rows[j]["soc"])
          /\ ret.rows[j]["soc_sor_ratio"] = Zero

\* max date minus min date of the daily rows, in days
Span(df) == SeqMax(ColValues(df, "date")) - SeqMin(ColValues(df, "date"))

HasDailyRows == call.df # None /\ ~IsEmpty(call.df)

\* C10 as claimed: calculate_last_3_days_metrics returns an empty result
\* whenever the date span of the daily rows is less than 6, and computes
\* per-campaign results only when the span is at least 6.
C10_AsClaimed ==
    Called("calculate_last_3_days_metrics") =>
      /\ ~HasDailyRows => IsEmpty(ret)
      /\ (HasDailyRows /\ Span(call.df) < 6) => IsEmpty(ret)

\* C10 amended: the result is empty whenever the span is less than 5 (six
\* calendar days from the first to the last), and per-campaign results are
\* computed only when the span is at least 5; with a span of at least 5 the
\* result is non-empty exactly when both 3-day windows have a row.
C10_EmptyBelowSpan5 ==
    Called("calculate_last_3_days_metrics") =>
      /\ ~HasDailyRows => IsEmpty(ret)
      /\ (HasDailyRows /\ Span(call.df) < 5) => IsEmpty(ret)
      /\ (HasDailyRows /\ Span(call.df) >= 5) =>
            LET max_date == SeqMax(ColValues(call.df, "date"))
                dates == ColValues(call.df, "date")
            IN  ~IsEmpty(ret) <=> (dates \cap ((max_date - 5)..(max_date - 3)) # {})

\* C10's case: daily rows spanning exactly 5 days give a per-campaign result
C10_Witness ==
    /\ Called("calculate_last_3_days_metrics")
    /\ HasDailyRows
    /\ Span(call.df) = 5
    /\ ~IsEmpty(ret)
    /\ Len(ret.rows) >= 1

\* the daily rows are one campaign's, one row on each of k consecutive days
ConsecutiveDays(df, k) ==
    /\ Len(df.rows) = k
    /\ Cardinality(ColValues(df, "campaign_name")) = 1
    /\ Cardinality(ColValues(df, "date")) = k
    /\ Span(df) = k - 1

\* C11: for one campaign with one daily row on each of k consecutive days,
\* calculate_last_3_days_metrics returns an empty result when k = 5 and a
\* non-empty result when k = 6.
C11_FiveDaysEmptySixNot ==
    (Called("calculate_last_3_days_metrics") /\ HasDailyRows) =>
      /\ ConsecutiveDays(call.df, 5) => IsEmpty(ret)
      /\ ConsecutiveDays(call.df, 6) => (~IsEmpty(ret) /\ Len(ret.rows) = 1)

\* C11's case: six consecutive days of one campaign gave its row
C11_Witness ==
    /\ Called("calculate_last_3_days_metrics")
    /\ HasDailyRows
    /\ ConsecutiveDays(call.df, 6)
    /\ Len(ret.rows) = 1
    /\ ret.rows[1]["campaign_name"] = "A"
    /\ ret.rows[1]["spend_delta_3d"] = R(100)

\* the two windows of a maximum date
LastWindow(max_date) == (max_date - 2)..max_date
PriorWindow(max_date) == (max_date - 5)..(max_date - 3)

\* sum of col over the daily rows of campaign name dated in window
WindowSum(df, name, window, col) ==
    SumSeq(SelectSeq(df.rows, LAMBDA x: x["campaign_name"] = name /\ x["date"] \in window),
           col)

\* delta is (last - prior)/prior*100, 0 on a zero prior
DeltaIs(delta, last, prior) ==
    IF prior # Zero THEN RMul(delta, prior) = RMul(RSub(last, prior), R(100))
    ELSE delta = Zero

MaxDate(df) == SeqMax(ColValues(df, "date"))

\* C12: the two windows of calculate_last_3_days_metrics depend only on the
\* maximum date of the daily rows, never on the wall-clock date: the last
\* window is [max_date-2, max_date], the prior one [max_date-5, max_date-3];
\* they are disjoint, adjacent and of equal length, and every row dated in a
\* window is counted in that window and in no other.
C12_WindowsAnchoredAtMaxDate ==
    (Called("calculate_last_3_days_metrics") /\ HasDailyRows /\ ~IsEmpty(ret)) =>
      LET last == LastWindow(MaxDate(call.df))
          prior == PriorWindow(MaxDate(call.df))
          counted == {x \in ColValues(call.df, "campaign_name") :
                        \E i \in DOMAIN call.df.rows :
                           /\ call.df.rows[i]["campaign_name"] = x
                           /\ call.df.rows[i]["date"] \in last \cup prior}
      IN  /\ last \cap prior = {}
          /\ Cardinality(last) = 3 /\ Cardinality(prior) = 3
          /\ \A d \in prior : d + 3 \in last
          /\ {ret.rows[i]["campaign_name"] : i \in DOMAIN ret.rows} = counted
          /\ \A i \in DOMAIN ret.rows :
                LET name == ret.rows[i]["campaign_name"]
                IN  /\ ret.rows[i]["cost_last3"] = WindowSum(call.df, name, last, "cost")
                    /\ DeltaIs(ret.rows[i]["spend_delta_3d"],
                               WindowSum(call.df, name, last, "cost"),
                               WindowSum(call.df, name, prior, "cost"))

\* C12's case: a wall-clock date that is not the maximum date, rows on all
\* days of both windows and a row before the prior window
C12_Witness ==
    /\ Called("calculate_last_3_days_metrics")
    /\ HasDailyRows
    /\ call.today # MaxDate(call.df)
    /\ LastWindow(MaxDate(call.df)) \cup PriorWindow(MaxDate(call.df))
          \subseteq ColValues(call.df, "date")
    /\ \E d \in ColValues(call.df, "date") : d < MaxDate(call.df) - 5
    /\ ~IsEmpty(ret)
    /\ ret.rows[1]["cost_last3"] = R(6)

\* C13: for every campaign of the result spend_delta_3d and revenue_delta_3d
\* are (last_window_sum - prior_window_sum)/prior_window_sum*100 when the
\* prior-window sum is non-zero and 0 otherwise, and delta_ratio_3d is
\* revenue_delta_3d / spend_delta_3d when |spend_delta_3d| > 0.1 and exactly 0
\* when |spend_delta_3d| <= 0.1.
C13_DeltaFormulas ==
    (Called("calculate_last_3_days_metrics") /\ HasDailyRows) =>
      \A i \in DOMAIN ret.rows :
         LET x == ret.rows[i]
             name == x["campaign_name"]
             last == LastWindow(MaxDate(call.df))
             prior == PriorWindow(MaxDate(call.df))
             spend == x["spend_delta_3d"]
             tenth == [n |-> 1, d |-> 10]
         IN  /\ DeltaIs(spend, WindowSum(call.df, name, last, "cost"),
                        WindowSum(call.df, name, prior, "cost"))
             /\ DeltaIs(x["revenue_delta_3d"],
                        WindowSum(call.df, name, last, "conversions_value"),
                        WindowSum(call.df, name, prior, "conversions_value"))
             /\ IF RLt(tenth, spend) \/ RLt(spend, RNeg(tenth))
                THEN RMul(x["delta_ratio_3d"], spend) = x["revenue_delta_3d"]
                ELSE x["delta_ratio_3d"] = Zero

\* C13's case: spend down by half with revenue doubled (ratio -2)
C13_Witness ==
    /\ Called("calculate_last_3_days_metrics")
    /\ \E i \in DOMAIN ret.rows :
          /\ ret.rows[i]["spend_delta_3d"] = R(-50)
          /\ ret.rows[i]["revenue_delta_3d"] = R(100)
          /\ ret.rows[i]["delta_ratio_3d"] = R(-2)

\* the tab showed its table for loaded, non-empty daily data
TabShownWithDailyRows ==
    /\ Called("campaign_tab_table")
    /\ ~Raised(ret)
    /\ ~IsEmpty(ret.df_display)
    /\ call.daily_data_camp # None
    /\ ~IsEmpty(call.daily_data_camp)

\* the last-3-days columns are missing from the table shown
NoRecentWindowResult == "delta_ratio_3d" \notin ret.df_display.columns

\* C14: in the Campaign Breakdown tab, whenever calculate_last_3_days_metrics
\* returns an empty result for the loaded non-empty daily data the user is
\* shown the insufficient-data warning; an empty recent-window result is
\* never passed over silently.
C14_EmptyResultWarned ==
    (TabShownWithDailyRows /\ NoRecentWindowResult) => ret.warning

\* the verdict of the interpretation policy, "none" where it says nothing
\* (a delta of 0)
PolicyVerdict(spend, revenue, ratio) ==
    IF RLt(spend, Zero) /\ RPos(revenue) THEN "favourable"
    ELSE IF RPos(spend) /\ RLt(revenue, Zero) THEN "unfavourable"
    ELSE IF (RPos(spend) /\ RPos(revenue)) \/ (RLt(spend, Zero) /\ RLt(revenue, Zero))
    THEN (IF RLe(R(1), ratio) THEN "favourable" ELSE "unfavourable")
    ELSE "none"

\* C15: every place that marks a recent-window delta ratio as good or bad
\* (the 3-day summary card, the colouring of the per-campaign delta ratio
\* cell) follows the interpretation policy: spend down with revenue up is
\* favourable whatever the ratio's sign, spend up with revenue down is
\* unfavourable, and with deltas of one sign ratio >= 1 is favourable and
\* ratio < 1 unfavourable.
C15_MarksFollowPolicy ==
    (Called("campaign_tab_table") /\ ~Raised(ret) /\ ret.summary # None) =>
      /\ LET verdict == PolicyVerdict(ret.summary.total_spend_delta,
                                      ret.summary.total_revenue_delta,
                                      ret.summary.avg_delta_ratio)
         IN  /\ verdict = "favourable" => ret.summary.performance_good
             /\ verdict = "unfavourable" => ~ret.summary.performance_good
      /\ \A i \in DOMAIN ret.df_display.rows :
            LET x == ret.df_display.rows[i]
                verdict == PolicyVerdict(x["spend_delta_3d"], x["revenue_delta_3d"],
                                         x["delta_ratio_3d"])
            IN  /\ verdict = "favourable" => ret.styles[i] = "Green"
                /\ verdict = "unfavourable" => ret.styles[i] = "Red"

\* the one raw event of the recorded fetch_change_history call
Event == call.response[1]
Kept == ~IsEmpty(ret)

\* the event has a budget marker: its resource type or name contains
\* 'budget', or its text contains a budget-amount marker
HasBudgetMarker(e) ==
    \/ type_has_budget(e.change_resource_type)
    \/ name_contains(e.change_resource_name, "budget")
    \/ \E marker \in {"amount_micros", "budget_amount"} :
          \/ contains(e.old_resource, marker)
          \/ contains(e.new_resource, marker)
          \/ name_contains(e.change_resource_name, marker)

\* the event's text contains one of the keywords
HasKeyword(e, keywords) ==
    \E k \in keywords :
       \/ contains(e.old_resource, k)
       \/ contains(e.new_resource, k)
       \/ name_contains(e.change_resource_name, k)

\* the event is kept exactly when it has a budget marker or one of the
\* keywords, as 'Budget Change' with a budget marker and as 'Bid Strategy
\* Change' otherwise
ClassifiedBy(keywords) ==
    Called("fetch_change_history") =>
      /\ Kept <=> (HasBudgetMarker(Event) \/ HasKeyword(Event, keywords))
      /\ Kept =>
            /\ Len(ret.rows) = 1
            /\ ret.rows[1].change_type =
                  IF HasBudgetMarker(Event) THEN "Budget Change" ELSE "Bid Strategy Change"

\* C16 as claimed: fetch_change_history keeps a raw event if and only if it
\* has a budget marker or its before/after text contains one of the keywords
\* maximize_conversions, maximize_conversion_value, target_cpa, target_roas,
\* manual_cpc, manual_cpm, target_spend, target_impression_share,
\* percent_cpc/commission; a kept event is a 'Budget Change' when it has a
\* budget marker, otherwise a 'Bid Strategy Change'; others are dropped.
C16_AsClaimed == ClassifiedBy(BidKeywordsNamed)

\* the keywords of the amended claim
AmendedKeywords == BidKeywordsNamed \cup {"bidding_strategy", "bid_strategy"}

\* C16 amended: the same with the keyword set extended by bidding_strategy
\* and bid_strategy, the keywords searched in the before text, the after
\* text and the resource name.
C16_Classifier == ClassifiedBy(AmendedKeywords)

\* C16's case: an event with a budget amount and a bid-strategy keyword in
\* its after text, kept as a budget change
C16_Witness ==
    /\ Called("fetch_change_history")
    /\ Event.change_resource_type = "CAMPAIGN"
    /\ contains(Event.new_resource, "amount_micros")
    /\ contains(Event.new_resource, "maximize_conversions")
    /\ Kept
    /\ ret.rows[1].change_type = "Budget Change"

\* formatted is value_micros / 1,000,000 at two decimals
IsTwoDecimalsOf(formatted, value_micros) ==
    LET cents == formatted.whole * 100 + formatted.decimals
        off == cents * 10000 - value_micros.n
    IN  /\ formatted.decimals \in 0..99
        /\ 2 * Abs(off) <= 10000

\* C17: for a budget change with old and new the amount_micros parsed from
\* the before and after text (present whenever the field parses, whatever
\* its value): both present and different give 'Budget increased from X to
\* Y' (new > old) or 'Budget decreased from X to Y' (new < old), X and Y the
\* amounts / 1,000,000 at two decimals; only the after amount gives 'Budget
\* set to Y'; only the before amount gives 'Budget removed'.
C17_BudgetSummary ==
    (Called("fetch_change_history") /\ Kept /\ ret.rows[1].change_type = "Budget Change") =>
      LET old == extract_budget_amount(Event.old_resource)
          new == extract_budget_amount(Event.new_resource)
          first == Head(ret.rows[1].change_details)
      IN  /\ (old # None /\ new # None /\ old # new) =>
                /\ first.clause = IF RLt(old, new) THEN "Budget increased from X to Y"
                                  ELSE "Budget decreased from X to Y"
                /\ IsTwoDecimalsOf(first.X, old)
                /\ IsTwoDecimalsOf(first.Y, new)
          /\ (old = None /\ new # None) =>
                (first.clause = "Budget set to Y" /\ IsTwoDecimalsOf(first.Y, new))
          /\ (old # None /\ new = None) => first.clause = "Budget removed"

\* the clause of a field whose two parsed values differ
FieldClauses(old, new, up, down) ==
    IF old # None /\ new # None /\ old # new
    THEN <<IF RLt(old, new) THEN up ELSE down>>
    ELSE <<>>

\* C18: for a bid-strategy change each of the three fields (strategy name,
\* target CPA, target ROAS) is handled independently: its clause is added
\* when the field is parsed from both texts and the two values differ, and
\* these are the only clauses a bid-strategy change produces, joined into
\* one summary.
C18_BidStrategySummary ==
    (Called("fetch_change_history") /\ Kept
       /\ ret.rows[1].change_type = "Bid Strategy Change") =>
      LET old_strategy == extract_bid_strategy(Event.old_resource)
          new_strategy == extract_bid_strategy(Event.new_resource)
          strategy == IF old_strategy # None /\ new_strategy # None
                         /\ old_strategy # new_strategy
                      THEN <<"Strategy changed from A to B">>
                      ELSE <<>>
          cpa == FieldClauses(extract_target_cpa(Event.old_resource),
                              extract_target_cpa(Event.new_resource),
                              "Target CPA increased from X to Y",
                              "Target CPA decreased from X to Y")
          roas == FieldClauses(extract_target_roas(Event.old_resource),
                               extract_target_roas(Event.new_resource),
                               "Target ROAS increased from X% to Y%",
                               "Target ROAS decreased from X% to Y%")
          expected == strategy \o cpa \o roas
          details == ret.rows[1].change_details
      IN  [i \in DOMAIN details |-> details[i].clause] =
             IF Len(expected) > 0 THEN expected ELSE <<"Change detected">>

\* a numeric field whose value is no number
Unparsable(f) ==
    /\ f.key \in {"amount_micros", "target_cpa_micros", "target_roas"}
    /\ f.value.kind \in {"word", "dots"}
\* the text with the value of every such field absent: the key stays, with
\* no digits after it
Parsable(text) ==
    [i \in DOMAIN text |-> IF Unparsable(text[i]) THEN Field(text[i].key, Word) ELSE text[i]]

\* C19: extract_change_details and the four extractors never raise for any
\* before/after text; a field that cannot be parsed is treated as absent and
\* left out of the summary while the other fields are still used (the
\* summary is that of the texts with the field's value missing), and the summary is never
\* empty: with no clause it is exactly 'Change detected'.
C19_ExtractionNeverRaises ==
    Called("fetch_change_history") =>
      /\ ~Raised(ret)
      /\ \A i \in DOMAIN ret.rows :
            LET x == ret.rows[i]
                details == x.change_details
            IN  /\ Len(details) >= 1
                /\ (\E j \in DOMAIN details : details[j] = ChangeDetected)
                      => details = <<ChangeDetected>>
                /\ ~Raised(extract_budget_amount(x.old_resource))
                /\ ~Raised(extract_bid_strategy(x.new_resource))
                /\ ~Raised(extract_target_cpa(x.old_resource))
                /\ ~Raised(extract_target_roas(x.old_resource))
                /\ ~Raised(extract_target_roas(x.new_resource))
                /\ details =
                      extract_change_details(Parsable(x.old_resource),
                                             Parsable(x.new_resource),
                                             x.change_type = "Budget Change",
                                             HasKeyword(Event, AmendedKeywords))

\* C19's case: an after text whose target_roas is no number, with a changed
\* strategy and target CPA that are still reported
C19_Witness ==
    /\ Called("fetch_change_history")
    /\ Kept
    /\ \E j \in DOMAIN Event.new_resource :
          /\ Event.new_resource[j].key = "target_roas"
          /\ Event.new_resource[j].value = Dots
    /\ contains(Event.old_resource, "target_roas")
    /\ Len(ret.rows[1].change_details) = 2
    /\ ret.rows[1].change_details[1].clause = "Strategy changed from A to B"
    /\ ret.rows[1].change_details[2].clause = "Target CPA increased from X to Y"

\* C20: process_dataframe, recalculate_metrics and calculate_share_metrics
\* leave the row set they are passed unchanged: after the call the frame
\* passed holds what it held before, the result being a separate value.
C20_ArgumentUnchanged ==
    (\/ Called("process_dataframe")
     \/ Called("recalculate_metrics")
     \/ Called("calculate_share_metrics")) => call.df_after = call.df

\* the comparison range the other tab computes for the recorded inputs
OtherTabRange ==
    IF call.tab = "aggregate"
    THEN camp_comparison_range(call.compare_option, call.start_date, call.end_date,
                               call.compare_start, call.compare_end)
    ELSE agg_comparison_range(call.compare_option, call.start_date, call.end_date,
                              call.compare_start, call.compare_end)

\* C22: for a current range [start, end], start <= end, d = end - start,
\* the comparison range of the Aggregate and Campaign tabs is: Previous
\* Period [start-1-d, start-1]; Previous Week [start-7, start-1]; Previous
\* Month [start-30, start-1]; Previous Year [start-365, end-365]; Custom the
\* supplied range unchanged; both tabs compute the same range.
C22_ComparisonRanges ==
    Called("comparison_range") =>
      LET start == call.start_date
          end == call.end_date
          d == end - start
          o == call.compare_option
      IN  /\ o = "Previous Period" =>
                (ret.start = start - 1 - d /\ ret.end = start - 1
                   /\ ret.end - ret.start = d)
          /\ o = "Previous Week" =>
                (ret.start = start - 7 /\ ret.end = start - 1 /\ ret.end - ret.start + 1 = 7)
          /\ o = "Previous Month" =>
                (ret.start = start - 30 /\ ret.end = start - 1
                   /\ ret.end - ret.start + 1 = 30)
          /\ o = "Previous Year" => (ret.start = start - 365 /\ ret.end = end - 365)
          /\ o = "Custom" => (ret.start = call.compare_start /\ ret.end = call.compare_end)
          /\ ret = OtherTabRange

\* C22's case: the Campaign tab's Previous Period of a six-day range
C22_Witness ==
    /\ Called("comparison_range")
    /\ call.tab = "campaign"
    /\ call.compare_option = "Previous Period"
    /\ call.start_date = 400 /\ call.end_date = 405
    /\ ret = DateRange(394, 399)

\* C23: whenever a comparison is computed (any compare option other than
\* None, any current range with start <= end) the comparison rows are
\* fetched for a date range that shares no day with the current range.
C23_RangesDisjoint ==
    Called("comparison_range") =>
      (ret.end < call.start_date \/ call.end_date < ret.start)

\* the rows of df at the positions of S, in their order
RowsAt(df, S) ==
    LET at == SortInts(S)
    IN  Frame(df.columns, [i \in DOMAIN at |-> df.rows[at[i]]])
\* the rows of a followed by the rows of b
Union(a, b) == Frame(a.columns \cup b.columns, a.rows \o b.rows)

\* C24: grouping by product_title and summing the counters obeys the
\* regrouping law: for any row set split into two subsets, grouping the
\* whole set gives the same per-title sums as grouping each subset and then
\* grouping the union of the two results again; grouping an already-grouped
\* set returns it unchanged.
C24_RegroupingLaw ==
    Called("groupby_product_title") =>
      LET one == RowsAt(call.df, call.part)
          other == RowsAt(call.df, DOMAIN call.df.rows \ call.part)
      IN  /\ ret = groupby_product_title(Union(groupby_product_title(one),
                                               groupby_product_title(other)))
          /\ groupby_product_title(ret) = ret

\* C24's case: three rows of one title, split into the first two and the
\* last, the counters of the three not all equal
C24_Witness ==
    /\ Called("groupby_product_title")
    /\ Len(call.df.rows) = 3
    /\ call.part = {1, 2}
    /\ \A i \in 1..3 : call.df.rows[i]["product_title"] = "P"
    /\ call.df.rows[1]["clicks"] # call.df.rows[3]["clicks"]
    /\ Len(ret.rows) = 1
    /\ ret.rows[1]["clicks"] = R(4)

ShareCols == {"soc", "sor", "soc_sor_ratio"}

\* C29: calculate_share_metrics returns a row set carrying soc, sor and
\* soc_sor_ratio for every input, an empty row set included, so the
\* product-table step that selects these fields after filtering succeeds
\* for every filter setting, filters that match no product included.
C29_ShareFieldsAlways ==
    /\ Called("calculate_share_metrics") => ShareCols \subseteq ret.columns
    /\ Called("product_tab_table") =>
          (~Raised(ret) /\ ShareCols \subseteq ret.columns)

\* C30: the classifier and the summary extraction agree on bid-strategy
\* keywords: for every keyword that makes fetch_change_history keep an event
\* as a 'Bid Strategy Change', extract_bid_strategy applied to a text
\* containing that keyword returns a strategy name (not None).
C30_KeywordsHaveNames ==
    (Called("fetch_change_history") /\ Kept
       /\ ret.rows[1].change_type = "Bid Strategy Change") =>
      \A text \in {Event.old_resource, Event.new_resource} :
         (\E keyword \in BidKeywords : contains(text, keyword))
            => extract_bid_strategy(text) # None

-----------------------------------------------------------------------------
(* Properties of the tabs (specification Spec)                             *)

\* the processed campaign rows the platform serves for date_range
CampaignRowsFor(date_range) ==
    process_dataframe(fetch_campaign_performance(
        served(platform.campaign, customer_id, date_range, <<>>)))
\* the rows of a frame, as a set, over the columns cols
RowSet(df, cols) == {[c \in cols |-> df.rows[i][c]] : i \in DOMAIN df.rows}

\* C21: operations on different inputs do not interfere through
\* process-wide state: a Load in one tab never changes the data set another
\* tab displays; the Aggregate Overview load leaves the Campaign Breakdown
\* table's data (its *_change columns included) unchanged, and the Campaign
\* Breakdown load leaves the change list of the Change History tab
\* unchanged.
C21_LoadsDoNotInterfere ==
    [][/\ LoadAggregate =>
             /\ CampaignShown' = CampaignShown
             /\ ProductShown' = ProductShown
             /\ ChangeHistoryShown' = ChangeHistoryShown
       /\ LoadCampaign =>
             /\ ChangeHistoryShown' = ChangeHistoryShown
             /\ AggregateShown' = AggregateShown
             /\ ProductShown' = ProductShown
       /\ LoadProduct =>
             /\ AggregateShown' = AggregateShown
             /\ CampaignShown' = CampaignShown
             /\ ChangeHistoryShown' = ChangeHistoryShown
       /\ LoadChangeHistory =>
             /\ AggregateShown' = AggregateShown
             /\ CampaignShown' = CampaignShown
             /\ ProductShown' = ProductShown]_vars

\* C25: in each data tab, once a Load has completed, the rows the tab
\* displays are the rows fetched by that Load for its selected date range;
\* a Load whose fetch returns no rows never leaves the rows of an earlier
\* Load on display.
C25_ShownRowsAreLoadedRows ==
    [][/\ \A o \in CompareOptions, r \in DateRanges :
             LoadAggregateFor(o, r) => AggregateShown' = CampaignRowsFor(r)
       /\ \A o \in CompareOptions, r \in DateRanges :
             LoadCampaignFor(o, r) =>
                RowSet(CampaignShown', CampaignCols \cup RatioCols)
                   = RowSet(CampaignRowsFor(r), CampaignCols \cup RatioCols)
       /\ \A fi \in FilterInputs, r \in DateRanges :
             (LoadProductFor(fi, r)
                /\ IsEmpty(fetch_product_performance(
                               served(platform.product, customer_id, r, <<>>))))
                => ProductShown' = NoRows]_vars

\* C26: after Disconnect no data fetched under the earlier connection is
\* displayed again: once the next Connect has succeeded, each tab
\* (Aggregate, Campaign, Product, Change History) shows no rows until a Load
\* is performed in it under the new connection.
C26_NothingShownOnReconnect ==
    [][(Connect /\ authenticated') =>
          /\ AggregateShown' = NoRows
          /\ CampaignShown' = NoRows
          /\ ProductShown' = NoRows
          /\ ChangeHistoryShown' = NoRows]_vars

\* a Load handler of one of the four tabs can run
FetchIssued ==
    ENABLED (LoadAggregate \/ LoadCampaign \/ LoadProduct \/ LoadChangeHistory)

\* C27: in every reachable session state authenticated is true exactly when
\* client and customer_id are both set, data_loaded implies that
\* aggregate_data is set, and no fetch against the ad platform is issued
\* while authenticated is false.
C27_SessionInvariant ==
    /\ authenticated <=> (client # None /\ customer_id # None)
    /\ authenticated \/ (client = None /\ customer_id = None)
    /\ data_loaded => aggregate_data # None
    /\ ~authenticated => ~FetchIssued

\* C27's case: disconnected after an Aggregate load, with the loaded data
\* still stored
C27_Witness ==
    /\ ~authenticated
    /\ client = None /\ customer_id = None
    /\ ~data_loaded
    /\ aggregate_data # None
    /\ campaign_data # None

\* C28: the per-campaign comparison table produced by the Campaign
\* Breakdown load has exactly as many rows as the current-period campaign
\* row set and each current row appears once, whatever the comparison-period
\* row set contains.
C28_OneRowPerCurrentRow ==
    (prov.campaign_data # None /\ prov.campaign_data.by = "campaign") =>
      LET current == CampaignRowsFor("R1")
      IN  /\ Len(campaign_data.rows) = Len(current.rows)
          /\ \A i \in DOMAIN current.rows :
                /\ i \in DOMAIN campaign_data.rows
                /\ [c \in current.columns |-> campaign_data.rows[i][c]] = current.rows[i]

====
